---- MODULE Spec2Model ----
(***************************************************************************)
(* The guard-mode zone allocator of osfmk/kern/gzalloc.c.                  *)
(*                                                                         *)
(* Addresses and sizes are byte counts.  The guard header is kept as the   *)
(* 16 bytes the LP64 build lays out (gzone at 0, gzsize at 8, gzsig at     *)
(* 12, little endian), so a header read at another place, or a header      *)
(* with one byte changed, is a different value.  The model checker's       *)
(* integers are 32-bit signed: 32-bit program words are therefore held     *)
(* as byte tuples where their value matters (the signature, the sentinel   *)
(* zone) and the all-ones word ~0U is the largest integer (UINT32_MAX).    *)
(***************************************************************************)
EXTENDS Integers, Sequences, FiniteSets, TLC

(***************************************************************************)
(* Program constants                                                       *)
(***************************************************************************)
PAGE_SIZE == 4096
PAGE_MASK == PAGE_SIZE - 1
GZHEADER_SIZE == 16
GZALLOC_MIN_DEFAULT == 1024
GZALLOC_RESERVE_SIZE_DEFAULT == 2 * 1024 * 1024
GZFC_DEFAULT_SIZE == 1024
UINT32_MAX == 2147483647
DEBUG_GZALLOC_MIN == 8192
DEBUG_GZALLOC_MAX == 16384

\* 0xABADCAFE and ((zone_t) 0xDEAD201E) as the bytes stored in memory
GZALLOC_SIGNATURE == <<254, 202, 173, 171>>
GZDEADZONE == <<30, 32, 173, 222, 0, 0, 0, 0>>
gzalloc_fill_pattern == 103

VM_PROT_NONE == "VM_PROT_NONE"
VM_PROT_READ == "VM_PROT_READ"
VM_PROT_DEFAULT == "VM_PROT_DEFAULT"
KMA_GUARD_FIRST == "KMA_GUARD_FIRST"
KMA_GUARD_LAST == "KMA_GUARD_LAST"
NoArg == -1

(***************************************************************************)
(* Bounds of the model                                                     *)
(***************************************************************************)
\* pages of the gzalloc map (kmem_suballoc'ed by gzalloc_init)
MapPages == 6
\* calls of gzalloc_alloc that reach the guarded path
MaxAllocs == 3
\* calls made with preemption disabled that the counters count
MaxPreempt == 1

(***************************************************************************)
(* Pure helpers                                                            *)
(***************************************************************************)
round_page(x) == ((x + PAGE_MASK) \div PAGE_SIZE) * PAGE_SIZE

RECURSIVE Pow256(_)
Pow256(i) == IF i = 0 THEN 1 ELSE 256 * Pow256(i - 1)

\* the little-endian bytes of a 32-bit word
U32Bytes(n) == [i \in 1..4 |-> (n \div Pow256(i - 1)) % 256]

\* zone_t: the address of the zone structure, as the 8 bytes of a pointer
ZonePtr(z) == <<(64 * z) % 256, 16 + z, 0, 0, 128, 255, 255, 255>>

\* gzhdr_t in memory
MkHeader(gzone, gzsize, gzsig) == gzone \o gzsize \o gzsig
HdrZone(h) == SubSeq(h, 1, 8)
HdrSize(h) == SubSeq(h, 9, 12)
HdrSig(h) == SubSeq(h, 13, 16)
FillHeader == [i \in 1..GZHEADER_SIZE |-> gzalloc_fill_pattern]

\* uint32_t addition
Add32(a, b) == IF a > UINT32_MAX - b THEN a - (UINT32_MAX - b) - 1 ELSE a + b

(***************************************************************************)
(* The environment the allocator is booted in                              *)
(***************************************************************************)
\* where pmap_steal_memory and kmem_suballoc place the reserve and the map
ReserveBase == 4096 * PAGE_SIZE
MapBase == 16384 * PAGE_SIZE

\* the zones of the host allocator
Zones == {1, 2}
ZoneDesc(size, exempt) == [elem_size |-> size, gzalloc_exempt |-> exempt]

\* A boot command line: a flag is TRUE when present, a valued argument is
\* NoArg when absent.  DEBUG and ZONE_DEBUG_OFFSET are the build's (the
\* offset is 0 in a build without ZONE_DEBUG).
BootArgs(mode, min, max, size, fc, wp, uf, nocons, nomode) ==
  [gzalloc_mode |-> mode, gzalloc_min |-> min, gzalloc_max |-> max,
   gzalloc_size |-> size, gzalloc_fc_size |-> fc, gzalloc_wp |-> wp,
   gzalloc_uf_mode |-> uf, gzalloc_noconsistency |-> nocons,
   nogzalloc_mode |-> nomode, DEBUG |-> FALSE, ZONE_DEBUG_OFFSET |-> 0]

(***************************************************************************)
(* gzalloc_configure: the configuration a boot command line resolves to    *)
(***************************************************************************)
\* -nogzalloc_mode is not looked at
ForceDisable_ignored(mode, b) == mode

\* if (PE_parse_boot_argn("-nogzalloc_mode", ...)) gzalloc_mode = FALSE;
ForceDisable(mode, b) == mode /\ ~b.nogzalloc_mode

gzalloc_configure(b) ==
  LET zdo == b.ZONE_DEBUG_OFFSET
      s0 == [gzalloc_mode |-> FALSE, gzalloc_min |-> UINT32_MAX,
             gzalloc_max |-> 0, gzalloc_size |-> 0]
      s1 == IF b.gzalloc_mode
            THEN [s0 EXCEPT !.gzalloc_mode = TRUE,
                            !.gzalloc_min = Add32(GZALLOC_MIN_DEFAULT, zdo),
                            !.gzalloc_max = UINT32_MAX]
            ELSE s0
      s2 == IF b.gzalloc_min # NoArg
            THEN [s1 EXCEPT !.gzalloc_min = Add32(b.gzalloc_min, zdo),
                            !.gzalloc_mode = TRUE,
                            !.gzalloc_max = UINT32_MAX]
            ELSE s1
      s3 == IF b.gzalloc_max # NoArg
            THEN [s2 EXCEPT !.gzalloc_max = Add32(b.gzalloc_max, zdo),
                            !.gzalloc_mode = TRUE,
                            !.gzalloc_min = IF s2.gzalloc_min = UINT32_MAX
                                            THEN 0 ELSE s2.gzalloc_min]
            ELSE s2
      s4 == IF b.gzalloc_size # NoArg
            THEN [s3 EXCEPT !.gzalloc_size = Add32(b.gzalloc_size, zdo),
                            !.gzalloc_min = Add32(b.gzalloc_size, zdo),
                            !.gzalloc_max = Add32(b.gzalloc_size, zdo),
                            !.gzalloc_mode = TRUE]
            ELSE s3
      dbg == b.DEBUG /\ ~s4.gzalloc_mode
      s5 == IF dbg
            THEN [s4 EXCEPT !.gzalloc_min = DEBUG_GZALLOC_MIN,
                            !.gzalloc_max = DEBUG_GZALLOC_MAX,
                            !.gzalloc_mode = TRUE]
            ELSE s4
      mode == ForceDisable(s5.gzalloc_mode, b)
  IN  [gzalloc_mode |-> mode,
       gzalloc_min |-> s5.gzalloc_min,
       gzalloc_max |-> s5.gzalloc_max,
       gzalloc_size |-> s5.gzalloc_size,
       gzfc_size |-> IF b.gzalloc_fc_size # NoArg THEN b.gzalloc_fc_size
                     ELSE GZFC_DEFAULT_SIZE,
       gzalloc_prot |-> IF b.gzalloc_wp \/ dbg THEN VM_PROT_READ
                        ELSE VM_PROT_NONE,
       gzalloc_uf_mode |-> b.gzalloc_uf_mode,
       gzalloc_guard |-> IF b.gzalloc_uf_mode THEN KMA_GUARD_FIRST
                         ELSE KMA_GUARD_LAST,
       gzalloc_consistency_checks |-> ~b.gzalloc_noconsistency,
       gzalloc_reserve_size |-> IF mode THEN GZALLOC_RESERVE_SIZE_DEFAULT
                                ELSE 0,
       gzalloc_reserve |-> IF mode THEN ReserveBase ELSE 0]

(***************************************************************************)
(* State                                                                   *)
(***************************************************************************)
VARIABLES
  gzalloc_mode, gzalloc_min, gzalloc_max, gzalloc_uf_mode, gzalloc_guard,
  gzalloc_consistency_checks, gzalloc_prot, gzfc_size,
  gzalloc_reserve, gzalloc_reserve_size,
  gzalloc_map_min, gzalloc_map_max,
  kmem_ready, vm_page_zone,
  bootargs,      \* the boot command line
  boot,          \* how far vm_mem_bootstrap has come
  zone,          \* zone id -> the zone structure (ZONE_NULL before zinit)
  vm,            \* page of the gzalloc map -> its mapping
  mem,           \* the guard headers in memory: <<address, 16 bytes>>
  gzalloc_allocated, gzalloc_freed, gzalloc_early_alloc, gzalloc_early_free,
  gzalloc_wasted, pdzalloc_count, pdzfree_count,
  panicked,      \* "" or the panic / fault that stopped the kernel
  regions,       \* the guarded regions handed out and not yet released
  freed,         \* zone id -> the region bases its frees admitted, in order
  released,      \* zone id -> the region bases vm_map_remove was given
  last,          \* the last call: operation, arguments, result, its steps
  thread,        \* thread id -> the call it is in and its position in it
  zlock          \* zone id -> the thread holding the zone's lock, or 0

cfgvars == <<bootargs, gzalloc_mode, gzalloc_min, gzalloc_max, gzalloc_uf_mode,
             gzalloc_guard, gzalloc_consistency_checks, gzalloc_prot,
             gzfc_size>>
ctrvars == <<gzalloc_allocated, gzalloc_freed, gzalloc_early_alloc,
             gzalloc_early_free, gzalloc_wasted, pdzalloc_count,
             pdzfree_count>>
bootvars == <<gzalloc_map_min, gzalloc_map_max, kmem_ready, vm_page_zone,
              boot>>
resvars == <<gzalloc_reserve, gzalloc_reserve_size>>
histvars == <<regions, freed, released>>
concvars == <<thread, zlock>>
vars == <<cfgvars, ctrvars, bootvars, resvars, zone, vm, mem, panicked,
          histvars, last, concvars>>

\* the threads calling into the allocator at the same time
Threads == {1, 2}
\* a thread outside gzalloc_alloc and gzalloc_free
Idle == [pc |-> "idle", z |-> 0, addr |-> 0, saddr |-> 0, free_addr |-> 0]

\* a zone before zinit
ZONE_NULL(d) ==
  [inited |-> FALSE, elem_size |-> d.elem_size,
   gzalloc_exempt |-> d.gzalloc_exempt,
   count |-> 0, sum_count |-> 0, cur_size |-> 0,
   gz |-> [gzfc |-> <<>>, gzfc_index |-> 0]]
\* the record of a call: ret is the address gzalloc_alloc returned, or 1 / 0
\* for the TRUE / FALSE of gzalloc_free; trace lists the steps it took
Call(op, ret, trace) == [op |-> op, ret |-> ret, trace |-> trace]
NoCall == Call("none", 0, <<>>)

\* the state gzalloc_configure leaves for the boot command line b, the host
\* allocator going to create the zones of table t
Booted(b, t) ==
  LET c == gzalloc_configure(b) IN
  /\ bootargs = b
  /\ gzalloc_mode = c.gzalloc_mode
  /\ gzalloc_min = c.gzalloc_min
  /\ gzalloc_max = c.gzalloc_max
  /\ gzalloc_uf_mode = c.gzalloc_uf_mode
  /\ gzalloc_guard = c.gzalloc_guard
  /\ gzalloc_consistency_checks = c.gzalloc_consistency_checks
  /\ gzalloc_prot = c.gzalloc_prot
  /\ gzfc_size = c.gzfc_size
  /\ gzalloc_reserve = c.gzalloc_reserve
  /\ gzalloc_reserve_size = c.gzalloc_reserve_size
  /\ gzalloc_map_min = 0
  /\ gzalloc_map_max = 0
  /\ kmem_ready = FALSE
  /\ vm_page_zone = FALSE
  /\ boot = "configured"
  /\ zone = [z \in Zones |-> ZONE_NULL(t[z])]
  /\ vm = [p \in 0..(MapPages - 1) |-> "unmapped"]
  /\ mem = {}
  /\ gzalloc_allocated = 0
  /\ gzalloc_freed = 0
  /\ gzalloc_early_alloc = 0
  /\ gzalloc_early_free = 0
  /\ gzalloc_wasted = 0
  /\ pdzalloc_count = 0
  /\ pdzfree_count = 0
  /\ panicked = ""
  /\ regions = {}
  /\ freed = [z \in Zones |-> <<>>]
  /\ released = [z \in Zones |-> <<>>]
  /\ last = NoCall
  /\ thread = [th \in Threads |-> Idle]
  /\ zlock = [z \in Zones |-> 0]

(***************************************************************************)
(* Geometry of a guarded region                                            *)
(***************************************************************************)
\* the eligibility test of gzalloc_alloc and gzalloc_free
Eligible(z) ==
  /\ gzalloc_mode
  /\ zone[z].elem_size >= gzalloc_min
  /\ zone[z].elem_size <= gzalloc_max
  /\ zone[z].gzalloc_exempt = FALSE

rounded_size(z) == round_page(zone[z].elem_size + GZHEADER_SIZE)
residue(z) == rounded_size(z) - zone[z].elem_size

\* the element is placed as in overflow mode
AllocAddr_overflow(z, gzaddr) == gzaddr + residue(z)

\* gzalloc_alloc: the element and its header, from the base of the backing
AllocAddr(z, gzaddr) ==
  IF gzalloc_uf_mode THEN gzaddr + PAGE_SIZE ELSE gzaddr + residue(z)
AllocHdr(z, gzaddr) ==
  IF gzalloc_uf_mode THEN gzaddr + PAGE_SIZE + zone[z].elem_size
  ELSE gzaddr + residue(z) - GZHEADER_SIZE
\* the first byte memset fills (rounded_size bytes)
AllocFill(z, gzaddr) ==
  IF gzalloc_uf_mode THEN gzaddr + PAGE_SIZE ELSE gzaddr

\* the footer is looked for where the overflow-mode header would be
FreeHdr_nofooter(z, addr) == addr - GZHEADER_SIZE

\* gzalloc_free: the header and the base of the region, from the element
FreeHdr(z, addr) ==
  IF gzalloc_uf_mode THEN addr + zone[z].elem_size ELSE addr - GZHEADER_SIZE
FreeSaddr(z, addr) ==
  IF gzalloc_uf_mode THEN addr - PAGE_SIZE ELSE addr - residue(z)

(***************************************************************************)
(* The virtual-memory primitives, on the pages of the gzalloc map          *)
(***************************************************************************)
InMap(a) == gzalloc_map_min <= a /\ a < gzalloc_map_max
PageOf(a) == (a - gzalloc_map_min) \div PAGE_SIZE
PagesOf(start, end) ==
  {p \in DOMAIN vm : /\ start <= gzalloc_map_min + p * PAGE_SIZE
                     /\ gzalloc_map_min + p * PAGE_SIZE < end}
Mapped(start, end) ==
  /\ InMap(start) /\ start < end /\ end <= gzalloc_map_max
  /\ \A p \in PagesOf(start, end) : vm[p] # "unmapped"

\* the bases kernel_memory_allocate(gzalloc_map, ..., size, ...) can return
kma_candidates(size) ==
  {gzalloc_map_min + p * PAGE_SIZE : p \in
     {q \in DOMAIN vm :
        /\ gzalloc_map_min + q * PAGE_SIZE + size <= gzalloc_map_max
        /\ \A r \in DOMAIN vm :
             (q <= r /\ r * PAGE_SIZE < q * PAGE_SIZE + size)
               => vm[r] = "unmapped"}}

\* the map after kernel_memory_allocate returned base for size bytes
kernel_memory_allocate(base, size, guard) ==
  LET guardpage == IF guard = KMA_GUARD_FIRST THEN PageOf(base)
                   ELSE PageOf(base + size - PAGE_SIZE)
  IN  [p \in DOMAIN vm |->
         IF p \in PagesOf(base, base + size)
         THEN (IF p = guardpage THEN "guard" ELSE VM_PROT_DEFAULT)
         ELSE vm[p]]

\* the protection is left as it was
vm_map_protect_noop(start, end, prot) == vm

\* the map after vm_map_protect(gzalloc_map, start, end, prot, FALSE)
vm_map_protect(start, end, prot) ==
  [p \in DOMAIN vm |-> IF p \in PagesOf(start, end) THEN prot ELSE vm[p]]

\* the map after vm_map_remove(gzalloc_map, start, end, ...)
vm_map_remove(start, end) ==
  [p \in DOMAIN vm |-> IF p \in PagesOf(start, end) THEN "unmapped" ELSE vm[p]]

\* a load from address a faults unless its page can be read
Readable(a) ==
  IF InMap(a) THEN vm[PageOf(a)] \in {VM_PROT_DEFAULT, VM_PROT_READ}
  ELSE TRUE

\* the 16 bytes at address a: a header stored there, else the fill pattern
Load(a) ==
  IF \E m \in mem : m[1] = a THEN (CHOOSE m \in mem : m[1] = a)[2]
  ELSE FillHeader

\* memory with the headers lying in [start, end) gone
Wipe(m, start, end) == {h \in m : ~(start <= h[1] /\ h[1] < end)}

(***************************************************************************)
(* Boot: kmem_init, zone_init (gzalloc_init), vm_page_module_init          *)
(***************************************************************************)
kmem_init ==
  /\ panicked = "" /\ boot = "configured"
  /\ kmem_ready' = TRUE
  /\ boot' = "kmem"
  /\ last' = Call("kmem_init", 0, <<>>)
  /\ UNCHANGED <<concvars, cfgvars, ctrvars, resvars, gzalloc_map_min, gzalloc_map_max,
                 vm_page_zone, zone, vm, mem, panicked, histvars>>

\* gzalloc_init(max_zonemap_size), kmem_suballoc placing the map at MapBase
gzalloc_init(max_zonemap_size) ==
  /\ panicked = "" /\ boot = "kmem"
  /\ boot' = "zone_init"
  /\ IF gzalloc_mode
     THEN /\ gzalloc_map_min' = MapBase
          /\ gzalloc_map_max' = MapBase + max_zonemap_size * 4
     ELSE UNCHANGED <<gzalloc_map_min, gzalloc_map_max>>
  /\ last' = Call("gzalloc_init", 0, <<>>)
  /\ UNCHANGED <<concvars, cfgvars, ctrvars, resvars, kmem_ready, vm_page_zone, zone,
                 vm, mem, panicked, histvars>>

vm_page_module_init ==
  /\ panicked = "" /\ boot = "zone_init"
  /\ vm_page_zone' = TRUE
  /\ boot' = "vm_page"
  /\ last' = Call("vm_page_module_init", 0, <<>>)
  /\ UNCHANGED <<concvars, cfgvars, ctrvars, resvars, gzalloc_map_min, gzalloc_map_max,
                 kmem_ready, zone, vm, mem, panicked, histvars>>

(***************************************************************************)
(* gzalloc_zone_init, called by zinit for the new zone z                   *)
(***************************************************************************)
\* unsigned comparison of vm_size_t values; a negative number stands for a
\* value that wrapped below zero
ULess(a, b) == IF a < 0 THEN (b < 0 /\ a < b) ELSE (b < 0 \/ a < b)

gzfcsz == round_page(8 * gzfc_size)

gzalloc_zone_init_result(z) ==
  LET cur == [panicked |-> "", gz |-> zone[z].gz,
              gzalloc_reserve |-> gzalloc_reserve,
              gzalloc_reserve_size |-> gzalloc_reserve_size]
      ring == [i \in 1..gzfc_size |-> 0]
  IN  IF ~gzalloc_mode THEN cur
      ELSE IF ~(gzfc_size # 0 /\ zone[z].elem_size >= gzalloc_min
                /\ zone[z].elem_size <= gzalloc_max
                /\ zone[z].gzalloc_exempt = FALSE)
      THEN [cur EXCEPT !.gz = [gzfc |-> <<>>, gzfc_index |-> 0]]
      ELSE IF ~kmem_ready
      THEN (IF ULess(gzalloc_reserve_size, gzfcsz)
            THEN [cur EXCEPT !.panicked = "gzalloc reserve exhausted",
                             !.gz = [gzfc |-> <<>>, gzfc_index |-> 0]]
            ELSE [cur EXCEPT !.gz = [gzfc |-> ring, gzfc_index |-> 0],
                             !.gzalloc_reserve = @ + gzfcsz,
                             !.gzalloc_reserve_size = @ - gzfcsz])
      ELSE [cur EXCEPT !.gz = [gzfc |-> ring, gzfc_index |-> 0]]

gzalloc_zone_init(z) ==
  /\ panicked = "" /\ ~zone[z].inited
  /\ \E o \in {gzalloc_zone_init_result(z)} :
       /\ panicked' = o.panicked
       /\ zone' = [zone EXCEPT ![z].inited = TRUE, ![z].gz = o.gz]
       /\ gzalloc_reserve' = o.gzalloc_reserve
       /\ gzalloc_reserve_size' = o.gzalloc_reserve_size
  /\ last' = Call("gzalloc_zone_init", 0, <<>>)
  /\ UNCHANGED <<concvars, cfgvars, ctrvars, bootvars, vm, mem, histvars>>

(***************************************************************************)
(* gzalloc_alloc                                                           *)
(***************************************************************************)
\* the header gzalloc_alloc writes
AllocHeader(z) ==
  MkHeader(IF kmem_ready /\ vm_page_zone THEN ZonePtr(z) ELSE GZDEADZONE,
           U32Bytes(zone[z].elem_size), GZALLOC_SIGNATURE)

\* lock_zone; count++, sum_count++, cur_size += rounded_size; unlock_zone
zone_account(zr, rs) ==
  [zr EXCEPT !.count = @ + 1, !.sum_count = @ + 1, !.cur_size = @ + rs]

\* gzalloc_alloc takes the early reserve path
EarlyAlloc == ~kmem_ready \/ ~vm_page_zone

\* bytes the early path takes from the reserve
EarlyReserveStep(rs) == rs + PAGE_SIZE

\* gzalloc_wasted after an allocation
WastedAfterAlloc(z) == gzalloc_wasted + (rounded_size(z) - zone[z].elem_size)

\* the fallback is counted too
PdzallocAfter_always(canblock, preempt) ==
  IF preempt THEN pdzalloc_count + 1 ELSE pdzalloc_count

\* pdzalloc_count after the preemption test of gzalloc_alloc
PdzallocAfter(canblock, preempt) ==
  IF preempt /\ canblock THEN pdzalloc_count + 1 ELSE pdzalloc_count

\* kmabase: the base kernel_memory_allocate returns, 0 when it fails
gzalloc_alloc_result(z, canblock, preempt, kmabase) ==
  LET rs == rounded_size(z)
      cur == [panicked |-> "", ret |-> 0, vm |-> vm, mem |-> mem,
              z |-> zone[z], gzalloc_reserve |-> gzalloc_reserve,
              gzalloc_reserve_size |-> gzalloc_reserve_size,
              gzalloc_allocated |-> gzalloc_allocated,
              gzalloc_early_alloc |-> gzalloc_early_alloc,
              gzalloc_wasted |-> gzalloc_wasted,
              pdzalloc_count |-> pdzalloc_count,
              regions |-> regions, trace |-> <<>>]
      pdz == PdzallocAfter(canblock, preempt)
      declined == <<<<"declined", z>>>>
      gzaddr == IF EarlyAlloc THEN gzalloc_reserve ELSE kmabase
      gzh == AllocHdr(z, gzaddr)
      addr == AllocAddr(z, gzaddr)
      fill == AllocFill(z, gzaddr)
      backing == IF EarlyAlloc
                 THEN <<"reserve", gzaddr, EarlyReserveStep(rs)>>
                 ELSE <<"kernel_memory_allocate", gzaddr, rs + PAGE_SIZE,
                        gzalloc_guard>>
  IN  IF ~Eligible(z) THEN [cur EXCEPT !.trace = declined]
      ELSE IF preempt /\ ~canblock
      THEN [cur EXCEPT !.pdzalloc_count = pdz, !.trace = declined]
      ELSE IF EarlyAlloc /\ ULess(gzalloc_reserve_size, rs)
      THEN [cur EXCEPT !.panicked = "gzalloc reserve exhausted",
                       !.pdzalloc_count = pdz]
      ELSE IF ~EarlyAlloc /\ kmabase = 0
      THEN [cur EXCEPT !.panicked = "gzalloc: kernel_memory_allocate failed",
                       !.pdzalloc_count = pdz]
      ELSE [cur EXCEPT
              !.ret = addr,
              !.pdzalloc_count = pdz,
              !.gzalloc_reserve =
                 IF EarlyAlloc THEN @ + EarlyReserveStep(rs) ELSE @,
              !.gzalloc_reserve_size =
                 IF EarlyAlloc THEN @ - EarlyReserveStep(rs) ELSE @,
              !.gzalloc_early_alloc = IF EarlyAlloc THEN @ + rs ELSE @,
              !.vm = IF EarlyAlloc THEN @
                     ELSE kernel_memory_allocate(kmabase, rs + PAGE_SIZE,
                                                 gzalloc_guard),
              !.mem = Wipe(@, fill, fill + rs) \cup {<<gzh, AllocHeader(z)>>},
              !.z = zone_account(@, rs),
              !.gzalloc_allocated = @ + rs,
              !.gzalloc_wasted = WastedAfterAlloc(z),
              !.regions = @ \cup {[base |-> gzaddr, addr |-> addr, hdr |-> gzh,
                                   zone |-> z, early |-> EarlyAlloc,
                                   st |-> "live"]},
              !.trace = <<<<"gzalloc_alloc", z, addr>>, backing,
                          <<"memset", fill, rs>>, <<"header", gzh>>,
                          <<"lock_zone">>, <<"count">>, <<"unlock_zone">>>>]

RECURSIVE SumCount(_)
SumCount(S) ==
  IF S = {} THEN 0
  ELSE LET z == CHOOSE x \in S : TRUE IN zone[z].sum_count + SumCount(S \ {z})

\* the call is declined: it returns 0 before any guard state is touched
AllocDeclined(z, canblock, preempt) ==
  ~Eligible(z) \/ (preempt /\ ~canblock)

\* one call of gzalloc_alloc(zone, canblock), whole
gzalloc_alloc_call(z, canblock, preempt) ==
  /\ panicked = "" /\ zone[z].inited
  /\ \E kmabase \in
        (IF AllocDeclined(z, canblock, preempt) \/ EarlyAlloc
            \/ kma_candidates(rounded_size(z) + PAGE_SIZE) = {}
         THEN {0} ELSE kma_candidates(rounded_size(z) + PAGE_SIZE)) :
       \E o \in {gzalloc_alloc_result(z, canblock, preempt, kmabase)} :
         /\ panicked' = o.panicked
         /\ vm' = o.vm
         /\ mem' = o.mem
         /\ zone' = [zone EXCEPT ![z] = o.z]
         /\ gzalloc_reserve' = o.gzalloc_reserve
         /\ gzalloc_reserve_size' = o.gzalloc_reserve_size
         /\ gzalloc_allocated' = o.gzalloc_allocated
         /\ gzalloc_early_alloc' = o.gzalloc_early_alloc
         /\ gzalloc_wasted' = o.gzalloc_wasted
         /\ pdzalloc_count' = o.pdzalloc_count
         /\ regions' = o.regions
         /\ last' = Call("gzalloc_alloc", o.ret, o.trace)
  /\ UNCHANGED <<concvars, cfgvars, bootvars, gzalloc_freed, gzalloc_early_free,
                 pdzfree_count, freed, released>>

\* the calls of gzalloc_alloc the bounded callers make
gzalloc_alloc(z, canblock, preempt) ==
  /\ AllocDeclined(z, canblock, preempt) \/ SumCount(Zones) < MaxAllocs
  /\ gzalloc_alloc_call(z, canblock, preempt)

(***************************************************************************)
(* gzalloc_free                                                            *)
(***************************************************************************)
\* the recorded zone is not compared
HeaderCheck_nozone(z, h) ==
  IF HdrSig(h) # GZALLOC_SIGNATURE THEN "GZALLOC signature mismatch"
  ELSE IF HdrSize(h) # U32Bytes(zone[z].elem_size)
  THEN "Mismatched zfree or under/overflow"
  ELSE ""

\* the recorded size is not compared
HeaderCheck_nosize(z, h) ==
  IF HdrSig(h) # GZALLOC_SIGNATURE THEN "GZALLOC signature mismatch"
  ELSE IF HdrZone(h) # ZonePtr(z) /\ HdrZone(h) # GZDEADZONE
  THEN "Mismatched zone or under/overflow"
  ELSE ""

\* the consistency checks on the header h: "" or the panic they end in
HeaderCheck(z, h) ==
  IF HdrSig(h) # GZALLOC_SIGNATURE THEN "GZALLOC signature mismatch"
  ELSE IF HdrZone(h) # ZonePtr(z) /\ HdrZone(h) # GZDEADZONE
  THEN "Mismatched zone or under/overflow"
  ELSE IF HdrSize(h) # U32Bytes(zone[z].elem_size)
  THEN "Mismatched zfree or under/overflow"
  ELSE ""

\* the sentinel is not looked at
EarlyFree_kmem(h) == ~kmem_ready

\* the free is of an early allocation: counted and leaked
EarlyFree(h) == ~kmem_ready \/ HdrZone(h) = GZDEADZONE

\* the cursor is not advanced after the insertion
gzfc_admit_noadvance(gz, saddr) ==
  LET idx == IF gz.gzfc_index >= gzfc_size THEN 0 ELSE gz.gzfc_index
  IN  [free_addr |-> gz.gzfc[idx + 1],
       gz |-> [gzfc |-> [gz.gzfc EXCEPT ![idx + 1] = saddr],
               gzfc_index |-> idx],
       idx |-> idx]

\* the cursor is not wrapped to the first slot
gzfc_admit_nowrap(gz, saddr) ==
  LET idx == gz.gzfc_index
  IN  [free_addr |-> IF (idx + 1) \in DOMAIN gz.gzfc THEN gz.gzfc[idx + 1]
                     ELSE 0,
       gz |-> [gzfc |-> IF (idx + 1) \in DOMAIN gz.gzfc
                        THEN [gz.gzfc EXCEPT ![idx + 1] = saddr] ELSE gz.gzfc,
               gzfc_index |-> idx + 1],
       idx |-> idx]

\* insertion into the protected free element cache: the new cache state and
\* the element rotated out
gzfc_admit(gz, saddr) ==
  LET idx == IF gz.gzfc_index >= gzfc_size THEN 0 ELSE gz.gzfc_index
  IN  [free_addr |-> gz.gzfc[idx + 1],
       gz |-> [gzfc |-> [gz.gzfc EXCEPT ![idx + 1] = saddr],
               gzfc_index |-> idx + 1],
       idx |-> idx]

\* the byte total is not given back
zone_unaccount_count(zr, free_addr, rs) ==
  IF free_addr # 0 THEN [zr EXCEPT !.count = @ - 1] ELSE zr

\* if (free_addr) { zone->count--; zone->cur_size -= rounded_size; }
zone_unaccount(zr, free_addr, rs) ==
  IF free_addr # 0
  THEN [zr EXCEPT !.count = @ - 1, !.cur_size = @ - rs]
  ELSE zr

\* the guard page is left out of the extent
Extent_noguard(start, rs) == start + rs

\* the extent handed to vm_map_protect and vm_map_remove
Extent(start, rs) == start + rs + PAGE_SIZE

\* the whole rounded size is taken off
WastedAfterRelease_rounded(z) == gzalloc_wasted - rounded_size(z)

\* gzalloc_wasted after a region of zone z is released
WastedAfterRelease(z) == gzalloc_wasted - (rounded_size(z) - zone[z].elem_size)

\* mach_assert: the build keeps assert()
gzalloc_free_result(z, addr, preempt, mach_assert) ==
  LET rs == rounded_size(z)
      gzh == FreeHdr(z, addr)
      saddr == FreeSaddr(z, addr)
      cur == [panicked |-> "", ret |-> 0, vm |-> vm, mem |-> mem,
              z |-> zone[z], gzalloc_early_free |-> gzalloc_early_free,
              pdzfree_count |-> pdzfree_count,
              gzalloc_freed |-> gzalloc_freed,
              gzalloc_wasted |-> gzalloc_wasted,
              regions |-> regions, freed |-> freed[z],
              released |-> released[z], trace |-> <<>>]
      h == Load(gzh)
      hdr == IF gzalloc_consistency_checks \/ kmem_ready
             THEN <<<<"read_header", gzh>>>> ELSE <<>>
      entry == <<"gzalloc_free", z, addr>>
      locate == <<"locate", gzh, saddr>>
      chk == IF gzalloc_consistency_checks THEN HeaderCheck(z, h) ELSE ""
      pdz == IF preempt THEN pdzfree_count + 1 ELSE pdzfree_count
      end == Extent(saddr, rs)
      prot == <<"vm_map_protect", saddr, end, gzalloc_prot>>
      vm1 == IF gzfc_size # 0 THEN vm_map_protect(saddr, end, gzalloc_prot)
             ELSE vm
      adm == gzfc_admit(zone[z].gz, saddr)
      free_addr == IF gzfc_size # 0 THEN adm.free_addr ELSE saddr
      gz1 == IF gzfc_size # 0 THEN adm.gz ELSE zone[z].gz
      ring == IF gzfc_size # 0
              THEN <<<<"gzfc_read", adm.idx, adm.free_addr>>,
                     <<"gzfc_write", adm.idx, saddr>>>>
              ELSE <<>>
      zr1 == zone_unaccount([zone[z] EXCEPT !.gz = gz1], free_addr, rs)
      locked == <<<<"lock_zone">>>> \o ring
                \o (IF free_addr # 0 THEN <<<<"uncount">>>> ELSE <<>>)
                \o <<<<"unlock_zone">>>>
      fend == Extent(free_addr, rs)
      quarantined == {IF r.base = saddr /\ ~r.early /\ gzfc_size # 0
                      THEN [r EXCEPT !.st = "quarantined"] ELSE r
                      : r \in regions}
  IN  IF ~Eligible(z) THEN [cur EXCEPT !.trace = <<<<"declined", z>>>>]
      ELSE IF mach_assert /\ saddr % PAGE_SIZE # 0
      THEN [cur EXCEPT !.panicked = "assertion failed",
                       !.trace = <<entry, locate>>]
      ELSE IF (gzalloc_consistency_checks \/ kmem_ready) /\ ~Readable(gzh)
      THEN [cur EXCEPT !.panicked = "page fault", !.trace = <<entry, locate>> \o hdr]
      ELSE IF chk # ""
      THEN [cur EXCEPT !.panicked = chk, !.trace = <<entry, locate>> \o hdr]
      ELSE IF EarlyFree(h)
      THEN [cur EXCEPT
              !.ret = 1,
              !.gzalloc_early_free = @ + rs,
              !.regions = {IF r.addr = addr
                           THEN [r EXCEPT !.st = "leaked"] ELSE r
                           : r \in regions},
              !.trace = <<entry, locate>> \o hdr]
      ELSE IF gzfc_size # 0 /\ ~Mapped(saddr, end)
      THEN [cur EXCEPT !.panicked = "gzalloc_free: vm_map_protect",
                       !.pdzfree_count = pdz,
                       !.trace = <<entry, locate>> \o hdr \o <<prot>>]
      ELSE IF gzfc_size # 0 /\ (adm.idx + 1) \notin DOMAIN zone[z].gz.gzfc
      THEN [cur EXCEPT !.panicked = "page fault", !.pdzfree_count = pdz,
                       !.vm = vm1, !.trace = <<entry, locate>> \o hdr \o <<prot>>]
      ELSE [cur EXCEPT
              !.ret = 1,
              !.pdzfree_count = pdz,
              !.z = zr1,
              !.vm = IF free_addr # 0 THEN
                       [p \in DOMAIN vm |->
                          IF p \in PagesOf(free_addr, fend) THEN "unmapped"
                          ELSE vm1[p]]
                     ELSE vm1,
              !.mem = IF free_addr # 0 THEN Wipe(@, free_addr, fend) ELSE @,
              !.gzalloc_freed = IF free_addr # 0 THEN @ + rs ELSE @,
              !.gzalloc_wasted = IF free_addr # 0 THEN WastedAfterRelease(z)
                                 ELSE @,
              !.regions = IF free_addr # 0
                          THEN {r \in quarantined :
                                  ~(r.base = free_addr /\ ~r.early)}
                          ELSE quarantined,
              !.freed = Append(@, saddr),
              !.released = IF free_addr # 0 THEN Append(@, free_addr) ELSE @,
              !.trace = <<entry, locate>> \o hdr
                        \o (IF gzfc_size # 0 THEN <<prot>> ELSE <<>>)
                        \o locked
                        \o (IF free_addr # 0
                            THEN <<<<"vm_map_remove", free_addr, fend>>>>
                            ELSE <<>>)]

gzalloc_free(z, addr, preempt) ==
  /\ panicked = "" /\ zone[z].inited
  /\ \E mach_assert \in (IF FreeSaddr(z, addr) % PAGE_SIZE = 0 THEN {FALSE}
                          ELSE BOOLEAN) :
       \E o \in {gzalloc_free_result(z, addr, preempt, mach_assert)} :
         /\ panicked' = o.panicked
         /\ vm' = o.vm
         /\ mem' = o.mem
         /\ zone' = [zone EXCEPT ![z] = o.z]
         /\ gzalloc_early_free' = o.gzalloc_early_free
         /\ pdzfree_count' = o.pdzfree_count
         /\ gzalloc_freed' = o.gzalloc_freed
         /\ gzalloc_wasted' = o.gzalloc_wasted
         /\ regions' = o.regions
         /\ freed' = [freed EXCEPT ![z] = o.freed]
         /\ released' = [released EXCEPT ![z] = o.released]
         /\ last' = Call("gzalloc_free", o.ret, o.trace)
  /\ UNCHANGED <<concvars, cfgvars, bootvars, resvars, gzalloc_allocated,
                 gzalloc_early_alloc, pdzalloc_count>>

(***************************************************************************)
(* A stray store of the kernel into the header of a live element           *)
(***************************************************************************)
\* the header h with the bytes b stored at offset off
StoreBytes(h, off, b) ==
  [i \in 1..GZHEADER_SIZE |->
     IF off < i /\ i <= off + Len(b) THEN b[i - off] ELSE h[i]]

\* the stores tried on the header of an element of zone z: a field
\* overwritten whole, a single byte of a field, and runs over several fields
Stores(z) ==
  {<<0, GZDEADZONE>>, <<0, ZonePtr(z)>>, <<0, ZonePtr(3 - z)>>,
   <<0, <<0, 0, 0, 0, 0, 0, 0, 0>>>>, <<0, <<65>>>>,
   <<8, U32Bytes(zone[3 - z].elem_size)>>, <<8, <<0>>>>,
   <<12, <<0, 0, 0, 0>>>>, <<15, <<170>>>>,
   <<0, GZDEADZONE \o U32Bytes(zone[3 - z].elem_size)>>,
   <<0, [i \in 1..GZHEADER_SIZE |-> 65]>>}

\* the header of region r is what gzalloc_alloc wrote
Intact(r) ==
  Load(r.hdr) = MkHeader(IF r.early THEN GZDEADZONE ELSE ZonePtr(r.zone),
                         U32Bytes(zone[r.zone].elem_size), GZALLOC_SIGNATURE)
Corrupted == {r \in regions : ~Intact(r)}

\* No step but gzalloc_free reads the header of a live element, so a store
\* into it is taken at the last moment it can happen: right before the
\* element is freed (StoredFree).
Corrupt ==
  /\ panicked = ""
  /\ \E r \in {q \in regions : q.st = "live"} : \E st \in Stores(r.zone) :
       /\ StoreBytes(Load(r.hdr), st[1], st[2]) # Load(r.hdr)
       /\ mem' = {m \in mem : m[1] # r.hdr}
                 \cup {<<r.hdr, StoreBytes(Load(r.hdr), st[1], st[2])>>}
       /\ last' = Call("store", 0,
                       <<<<"store", r.zone, r.addr, r.hdr + st[1], st[2]>>>>)
  /\ UNCHANGED <<concvars, cfgvars, ctrvars, bootvars, resvars, zone, vm, panicked,
                 histvars>>

(***************************************************************************)
(* The callers: every element is freed once, to the zone it came from      *)
(***************************************************************************)
\* the call c of gzalloc_alloc on an eligible zone returned 0: the element
\* comes from the host allocator's own path
Fallback(c) ==
  /\ c.op = "gzalloc_alloc" /\ c.ret = 0
  /\ \E z \in Zones : Eligible(z) /\ c.trace = <<<<"declined", z>>>>

\* an element of the host allocator's own (non-guarded) path
HostElement == 8192 * PAGE_SIZE + 512

LiveOf(z) == {r.addr : r \in {q \in regions : q.zone = z /\ q.st = "live"}}

\* calls made with preemption disabled that the counters have counted
PreemptCalls == pdzalloc_count + pdzfree_count

\* the callers run with preemption enabled (get_preemption_level() = 0)
Alloc == \E z \in Zones : \E canblock \in BOOLEAN :
           gzalloc_alloc(z, canblock, FALSE)

Free == \E z \in Zones :
          \E addr \in (IF Eligible(z) THEN LiveOf(z) ELSE {HostElement}) :
            gzalloc_free(z, addr, FALSE)

\* the callers run with preemption disabled
AllocPreempt == \E z \in Zones : \E canblock \in BOOLEAN :
                  /\ PreemptCalls < MaxPreempt
                  /\ gzalloc_alloc(z, canblock, TRUE)

FreePreempt == \E z \in Zones :
                 \E addr \in (IF Eligible(z) THEN LiveOf(z)
                              ELSE {HostElement}) :
                   /\ PreemptCalls < MaxPreempt
                   /\ gzalloc_free(z, addr, TRUE)

\* zinit creates the zones in the order of the table
ZoneInit == \E z \in Zones :
              /\ \A y \in Zones : y < z => zone[y].inited
              /\ gzalloc_zone_init(z)

GzallocInit == gzalloc_init(MapPages * 1024)

(***************************************************************************)
(* Spec: preemptible callers, over the detection modes, the quarantine     *)
(* dispositions and the cache capacities 0, 1 and 2                        *)
(***************************************************************************)
SpecBootArgs ==
  {BootArgs(FALSE, NoArg, NoArg, 256, fc, w, w, FALSE, FALSE) :
     fc \in 0..2, w \in BOOLEAN}
  \cup {BootArgs(FALSE, 256, 4081, NoArg, 1, FALSE, TRUE, FALSE, FALSE),
        BootArgs(FALSE, 256, 4081, NoArg, 2, TRUE, FALSE, FALSE, FALSE)}
SpecZones ==
  {<<ZoneDesc(256, FALSE), ZoneDesc(4081, FALSE)>>}

Init == \E b \in SpecBootArgs : \E t \in SpecZones : Booted(b, t)

Next ==
  \/ kmem_init
  \/ GzallocInit
  \/ vm_page_module_init
  \/ ZoneInit
  \/ Alloc
  \/ Free

Spec == Init /\ [][Next]_vars

(***************************************************************************)
(* SpecDecline: callers with preemption enabled or disabled, zones that    *)
(* are exempt or outside the window, guarding disabled                     *)
(***************************************************************************)
DeclineBootArgs ==
  {BootArgs(FALSE, NoArg, NoArg, 256, 1, FALSE, FALSE, FALSE, FALSE),
   BootArgs(TRUE, NoArg, NoArg, 256, 1, FALSE, FALSE, FALSE, TRUE)}
DeclineZones ==
  {<<ZoneDesc(256, FALSE), ZoneDesc(4081, FALSE)>>,
   <<ZoneDesc(256, FALSE), ZoneDesc(256, TRUE)>>}

InitDecline == \E b \in DeclineBootArgs : \E t \in DeclineZones : Booted(b, t)

NextDecline ==
  \/ kmem_init
  \/ GzallocInit
  \/ vm_page_module_init
  \/ ZoneInit
  \/ Alloc
  \/ Free
  \/ AllocPreempt
  \/ FreePreempt

SpecDecline == InitDecline /\ [][NextDecline]_vars

(***************************************************************************)
(* SpecCorrupt: Spec's callers, and stray stores into live headers         *)
(***************************************************************************)
CorruptBootArgs ==
  {BootArgs(FALSE, 256, 4081, NoArg, fc, FALSE, fc = 0, FALSE, FALSE) :
     fc \in 0..1}

\* one guarded zone, and an exempt one whose identity and element size the
\* stores can write
CorruptZones == {<<ZoneDesc(4081, FALSE), ZoneDesc(256, TRUE)>>}
InitCorrupt ==
  \E b \in CorruptBootArgs : \E t \in CorruptZones : Booted(b, t)

\* no store is waiting for its free
Quiet == last.op # "store"

\* the element stored into is freed
StoredFree ==
  /\ last.op = "store"
  /\ gzalloc_free(last.trace[1][2], last.trace[1][3], FALSE)

NextCorrupt ==
  \/ Quiet /\ kmem_init
  \/ Quiet /\ GzallocInit
  \/ Quiet /\ vm_page_module_init
  \/ Quiet /\ ZoneInit
  \/ Quiet /\ Alloc
  \/ Quiet /\ Free
  \/ Quiet /\ Corrupt
  \/ StoredFree

SpecCorrupt == InitCorrupt /\ [][NextCorrupt]_vars

(***************************************************************************)
(* SpecReserve: the early reserve is used up.  One zone is guarded, every  *)
(* allocation is made while gzalloc_alloc still takes the reserve path,    *)
(* and the callers stop once gzalloc_reserve_size has wrapped.             *)
(***************************************************************************)
ReserveBootArgs ==
  {BootArgs(FALSE, NoArg, NoArg, 256, fc, FALSE, fc = 1, FALSE, FALSE) :
     fc \in 0..1}
  \cup {BootArgs(FALSE, NoArg, NoArg, 4081, 0, FALSE, FALSE, FALSE, FALSE)}
ReserveZones == {<<ZoneDesc(256, FALSE), ZoneDesc(4081, FALSE)>>}
InitReserve ==
  \E b \in ReserveBootArgs : \E t \in ReserveZones : Booted(b, t)

ReserveEnd == ReserveBase + GZALLOC_RESERVE_SIZE_DEFAULT

AllocEarly ==
  /\ EarlyAlloc /\ gzalloc_reserve_size >= 0
  /\ \E z \in Zones : Eligible(z) /\ gzalloc_alloc_call(z, TRUE, FALSE)

NextReserve ==
  \/ kmem_init
  \/ GzallocInit
  \/ vm_page_module_init
  \/ ZoneInit
  \/ AllocEarly

SpecReserve == InitReserve /\ [][NextReserve]_vars

(***************************************************************************)
(* SpecDouble: Spec's callers, and callers that free an element a second   *)
(* time while its region is in the ring                                    *)
(***************************************************************************)
DoubleBootArgs ==
  {BootArgs(FALSE, NoArg, NoArg, 256, fc, wp, fc = 2, FALSE, FALSE) :
     fc \in 1..2, wp \in BOOLEAN}
DoubleZones == {<<ZoneDesc(256, FALSE), ZoneDesc(4081, FALSE)>>}
InitDouble == \E b \in DoubleBootArgs : \E t \in DoubleZones : Booted(b, t)

DoubleFree ==
  \E r \in {q \in regions : q.st = "quarantined"} :
    gzalloc_free(r.zone, r.addr, FALSE)

NextDouble ==
  \/ kmem_init
  \/ GzallocInit
  \/ vm_page_module_init
  \/ ZoneInit
  \/ Alloc
  \/ Free
  \/ DoubleFree

SpecDouble == InitDouble /\ [][NextDouble]_vars

(***************************************************************************)
(* SpecCross: callers that free every element to the zone it did not come  *)
(* from.  Both zones are guarded; their element sizes are equal or         *)
(* different.                                                              *)
(***************************************************************************)
CrossBootArgs ==
  {BootArgs(FALSE, 256, 4081, NoArg, fc, FALSE, uf, FALSE, FALSE) :
     fc \in 0..1, uf \in BOOLEAN}
CrossZones ==
  {<<ZoneDesc(256, FALSE), ZoneDesc(256, FALSE)>>,
   <<ZoneDesc(256, FALSE), ZoneDesc(512, FALSE)>>}
InitCross == \E b \in CrossBootArgs : \E t \in CrossZones : Booted(b, t)

CrossFree ==
  \E r \in {q \in regions : q.st = "live"} :
    \E z \in Zones \ {r.zone} : gzalloc_free(z, r.addr, FALSE)

NextCross ==
  \/ kmem_init
  \/ GzallocInit
  \/ vm_page_module_init
  \/ ZoneInit
  \/ Alloc
  \/ CrossFree

SpecCross == InitCross /\ [][NextCross]_vars

(***************************************************************************)
(* SpecFallback: Spec's callers, and callers with preemption disabled that *)
(* may not block: gzalloc_alloc returns 0, the element comes from the host *)
(* allocator's own path and is later freed to the same zone.               *)
(***************************************************************************)
FallbackBootArgs ==
  {BootArgs(FALSE, NoArg, NoArg, 256, fc, FALSE, fc = 1, fc = 1, FALSE) :
     fc \in 0..1}
FallbackZones == {<<ZoneDesc(256, FALSE), ZoneDesc(4081, FALSE)>>}
InitFallback ==
  \E b \in FallbackBootArgs : \E t \in FallbackZones : Booted(b, t)

\* the elements the host allocator hands out for zone z, each once: one
\* anywhere in a page, one placed so that gzalloc_free computes a
\* page-aligned saddr
HostElements(z) ==
  {HostElement,
   8200 * PAGE_SIZE + (IF gzalloc_uf_mode THEN 0 ELSE residue(z))}

\* the 16 bytes found where gzalloc_free looks for a header are not written
\* by gzalloc: anything, also bytes that read as a header of z
HostContents(z) ==
  {FillHeader,
   MkHeader(ZonePtr(z), U32Bytes(zone[z].elem_size), GZALLOC_SIGNATURE),
   MkHeader(GZDEADZONE, U32Bytes(zone[z].elem_size), GZALLOC_SIGNATURE)}

\* no host element is waiting for its free
NoHost == last.op # "host_alloc"

DeclinedAlloc ==
  \E z \in Zones : Eligible(z) /\ gzalloc_alloc_call(z, FALSE, TRUE)

\* gzalloc_alloc returned 0 for the eligible zone: the caller takes the
\* element from the host allocator
HostAlloc ==
  /\ panicked = "" /\ Fallback(last)
  /\ \E z \in {last.trace[1][2]} :
       \E e \in {h \in HostElements(z) : \A r \in regions : r.addr # h} :
         \E c \in HostContents(z) :
           /\ mem' = {m \in mem : m[1] # FreeHdr(z, e)}
                     \cup {<<FreeHdr(z, e), c>>}
           /\ regions' = regions \cup
                {[zone |-> z, addr |-> e, base |-> 0, hdr |-> FreeHdr(z, e),
                  early |-> FALSE, st |-> "host"]}
           /\ last' = Call("host_alloc", e, <<<<"host_alloc", z, e>>>>)
  /\ UNCHANGED <<concvars, cfgvars, ctrvars, bootvars, resvars, zone, vm,
                 panicked, freed, released>>

\* the host element is freed to the zone it was allocated from
HostFree ==
  /\ last.op = "host_alloc"
  /\ gzalloc_free(last.trace[1][2], last.trace[1][3], FALSE)

NextFallback ==
  \/ NoHost /\ kmem_init
  \/ NoHost /\ GzallocInit
  \/ NoHost /\ vm_page_module_init
  \/ NoHost /\ ZoneInit
  \/ NoHost /\ Alloc
  \/ NoHost /\ Free
  \/ NoHost /\ DeclinedAlloc
  \/ HostAlloc
  \/ HostFree

SpecFallback == InitFallback /\ [][NextFallback]_vars

(***************************************************************************)
(* SpecOverrun: underflow-detection mode, a zone of 64-byte elements, and  *)
(* callers that write one byte past the end of a live element              *)
(***************************************************************************)
OverrunBootArgs ==
  {BootArgs(FALSE, NoArg, NoArg, 64, fc, FALSE, TRUE, FALSE, FALSE) :
     fc \in 0..1}
OverrunZones == {<<ZoneDesc(64, FALSE), ZoneDesc(256, FALSE)>>}
InitOverrun ==
  \E b \in OverrunBootArgs : \E t \in OverrunZones : Booted(b, t)

\* the values of the byte written
OverrunBytes == {0, 30, 255}

\* the byte at offset elem_size from the returned address is written: it
\* is the byte of the header at that distance from the header's start
Overrun ==
  /\ panicked = ""
  /\ \E r \in {q \in regions : q.st = "live"} : \E b \in OverrunBytes :
       LET a == r.addr + zone[r.zone].elem_size
           off == a - r.hdr
       IN  /\ 0 <= off /\ off < GZHEADER_SIZE
           /\ StoreBytes(Load(r.hdr), off, <<b>>) # Load(r.hdr)
           /\ mem' = {m \in mem : m[1] # r.hdr}
                     \cup {<<r.hdr, StoreBytes(Load(r.hdr), off, <<b>>)>>}
           /\ last' = Call("store", 0, <<<<"store", r.zone, r.addr, a, <<b>>>>>>)
  /\ UNCHANGED <<concvars, cfgvars, ctrvars, bootvars, resvars, zone, vm, panicked,
                 histvars>>

NextOverrun ==
  \/ Quiet /\ kmem_init
  \/ Quiet /\ GzallocInit
  \/ Quiet /\ vm_page_module_init
  \/ Quiet /\ ZoneInit
  \/ Quiet /\ Alloc
  \/ Quiet /\ Free
  \/ Quiet /\ Overrun
  \/ StoredFree

SpecOverrun == InitOverrun /\ [][NextOverrun]_vars

(***************************************************************************)
(* SpecConfigure: gzalloc_configure over the combinations of boot-args and *)
(* build switches, followed by zinit and calls made during early boot      *)
(***************************************************************************)
\* ZONE_DEBUG_OFFSET of a build with ZONE_DEBUG, 0 of one without
ZoneDebugOffsets == {0, 16}
ConfigBootArgs ==
  {[BootArgs(mode, min, max, size, 0, FALSE, FALSE, FALSE, nomode)
      EXCEPT !.DEBUG = dbg, !.ZONE_DEBUG_OFFSET = zdo] :
     mode \in BOOLEAN, min \in {NoArg, 256}, max \in {NoArg, 4081},
     size \in {NoArg, 256, 272}, nomode \in BOOLEAN, dbg \in BOOLEAN,
     zdo \in ZoneDebugOffsets}
ConfigZones ==
  {<<ZoneDesc(256, FALSE), ZoneDesc(272, FALSE)>>,
   <<ZoneDesc(272, TRUE), ZoneDesc(8192, FALSE)>>}
InitConfigure ==
  \E b \in ConfigBootArgs : \E t \in ConfigZones : Booted(b, t)

NextConfigure ==
  \/ ZoneInit
  \/ Alloc
  \/ Free

SpecConfigure == InitConfigure /\ [][NextConfigure]_vars

(***************************************************************************)
(* SpecConc: two threads in gzalloc_alloc and gzalloc_free at once, one    *)
(* step per statement that touches shared state.  The calls are made after *)
(* boot, with preemption enabled, on guarded elements that no other thread *)
(* is freeing.                                                             *)
(***************************************************************************)
\* lock_zone does not wait
LockFree_nolock(z) == TRUE

\* lock_zone(zone) can take the lock
LockFree(z) == zlock[z] = 0

At(t, pc) == thread[t].pc = pc
Goto(t, pc) == [thread EXCEPT ![t].pc = pc]

\* calls of gzalloc_alloc that have not yet counted themselves in sum_count
AllocsInFlight ==
  Cardinality({t \in Threads : thread[t].pc \in {"a_lock", "a_count", "a_sum"}})

\* gzalloc_alloc up to lock_zone: the backing region, the layout, the fill
\* and the header, all of memory no other thread has been given
T_alloc_enter(t, z) ==
  /\ panicked = "" /\ At(t, "idle")
  /\ \A y \in Zones : zone[y].inited
  /\ Eligible(z) /\ ~EarlyAlloc
  /\ SumCount(Zones) + AllocsInFlight < MaxAllocs
  /\ \E kmabase \in
        (IF kma_candidates(rounded_size(z) + PAGE_SIZE) = {} THEN {0}
         ELSE kma_candidates(rounded_size(z) + PAGE_SIZE)) :
       IF kmabase = 0
       THEN /\ panicked' = "gzalloc: kernel_memory_allocate failed"
            /\ UNCHANGED <<vm, mem, regions, thread>>
       ELSE LET rs == rounded_size(z)
                fill == AllocFill(z, kmabase)
            IN  /\ vm' = kernel_memory_allocate(kmabase, rs + PAGE_SIZE,
                                                gzalloc_guard)
                /\ mem' = Wipe(mem, fill, fill + rs)
                          \cup {<<AllocHdr(z, kmabase), AllocHeader(z)>>}
                /\ regions' = regions
                     \cup {[base |-> kmabase, addr |-> AllocAddr(z, kmabase),
                            hdr |-> AllocHdr(z, kmabase), zone |-> z,
                            early |-> FALSE, st |-> "allocating"]}
                /\ thread' = [thread EXCEPT ![t] =
                     [pc |-> "a_lock", z |-> z,
                      addr |-> AllocAddr(z, kmabase), saddr |-> kmabase,
                      free_addr |-> 0]]
                /\ UNCHANGED panicked
  /\ UNCHANGED <<cfgvars, ctrvars, bootvars, resvars, zone, freed, released,
                 last, zlock>>

\* lock_zone(zone), in gzalloc_alloc and in gzalloc_free
T_lock(t) ==
  /\ panicked = "" /\ thread[t].pc \in {"a_lock", "f_lock"}
  /\ LockFree(thread[t].z)
  /\ zlock' = [zlock EXCEPT ![thread[t].z] = t]
  /\ thread' = Goto(t, IF At(t, "a_lock") THEN "a_count" ELSE "f_ring")
  /\ UNCHANGED <<cfgvars, ctrvars, bootvars, resvars, zone, vm, mem,
                 panicked, histvars, last>>

\* zone->count++; zone->sum_count++; zone->cur_size += rounded_size;
T_alloc_count(t) ==
  /\ panicked = "" /\ thread[t].pc \in {"a_count", "a_sum", "a_cur"}
  /\ LET z == thread[t].z IN
       \/ /\ At(t, "a_count")
          /\ zone' = [zone EXCEPT ![z].count = @ + 1]
          /\ thread' = Goto(t, "a_sum")
       \/ /\ At(t, "a_sum")
          /\ zone' = [zone EXCEPT ![z].sum_count = @ + 1]
          /\ thread' = Goto(t, "a_cur")
       \/ /\ At(t, "a_cur")
          /\ zone' = [zone EXCEPT ![z].cur_size = @ + rounded_size(z)]
          /\ thread' = Goto(t, "a_unlock")
  /\ UNCHANGED <<cfgvars, ctrvars, bootvars, resvars, vm, mem, panicked,
                 histvars, last, zlock>>

\* gzalloc_free keeps the zone lock while it releases the region rotated out
T_unlock_late(t) ==
  /\ panicked = "" /\ thread[t].pc \in {"a_unlock", "f_unlock"}
  /\ zlock' = IF At(t, "f_unlock") /\ thread[t].free_addr # 0 THEN zlock
              ELSE [zlock EXCEPT ![thread[t].z] = 0]
  /\ thread' = IF At(t, "a_unlock") THEN Goto(t, "a_stats")
               ELSE IF thread[t].free_addr # 0 THEN Goto(t, "f_remove")
               ELSE [thread EXCEPT ![t] = Idle]
  /\ UNCHANGED <<cfgvars, ctrvars, bootvars, resvars, zone, vm, mem,
                 panicked, histvars, last>>

\* unlock_zone(zone); gzalloc_free returns here when nothing was rotated out
T_unlock(t) ==
  /\ panicked = "" /\ thread[t].pc \in {"a_unlock", "f_unlock"}
  /\ zlock' = [zlock EXCEPT ![thread[t].z] = 0]
  /\ thread' = IF At(t, "a_unlock") THEN Goto(t, "a_stats")
               ELSE IF thread[t].free_addr # 0 THEN Goto(t, "f_remove")
               ELSE [thread EXCEPT ![t] = Idle]
  /\ UNCHANGED <<cfgvars, ctrvars, bootvars, resvars, zone, vm, mem,
                 panicked, histvars, last>>

\* the two OSAddAtomic64 of gzalloc_alloc, and its return
T_alloc_return(t) ==
  /\ panicked = "" /\ At(t, "a_stats")
  /\ gzalloc_allocated' = gzalloc_allocated + rounded_size(thread[t].z)
  /\ gzalloc_wasted' = WastedAfterAlloc(thread[t].z)
  /\ regions' = {IF r.base = thread[t].saddr /\ r.st = "allocating"
                 THEN [r EXCEPT !.st = "live"] ELSE r : r \in regions}
  /\ thread' = [thread EXCEPT ![t] = Idle]
  /\ UNCHANGED <<cfgvars, bootvars, resvars, zone, vm, mem, panicked, freed,
                 released, last, zlock, gzalloc_freed, gzalloc_early_alloc,
                 gzalloc_early_free, pdzalloc_count, pdzfree_count>>

\* gzalloc_free up to the quarantine: the header is located, read and
\* checked; the element is r's, live, and from the map
T_free_enter(t, r) ==
  /\ panicked = "" /\ At(t, "idle")
  /\ r.st = "live" /\ ~r.early /\ Eligible(r.zone) /\ kmem_ready
  /\ LET h == Load(FreeHdr(r.zone, r.addr))
         chk == IF gzalloc_consistency_checks THEN HeaderCheck(r.zone, h)
                ELSE ""
     IN  /\ ~EarlyFree(h)
         /\ panicked' = chk
         /\ IF chk # "" THEN UNCHANGED <<thread, regions>>
            ELSE /\ thread' = [thread EXCEPT ![t] =
                      [pc |-> "f_protect", z |-> r.zone, addr |-> r.addr,
                       saddr |-> FreeSaddr(r.zone, r.addr), free_addr |-> 0]]
                 /\ regions' = (regions \ {r})
                               \cup {[r EXCEPT !.st = "freeing"]}
  /\ UNCHANGED <<cfgvars, ctrvars, bootvars, resvars, zone, vm, mem, freed,
                 released, last, zlock>>

\* if (gzfc_size) vm_map_protect(...) else free_addr = saddr;
T_free_protect(t) ==
  /\ panicked = "" /\ At(t, "f_protect")
  /\ LET saddr == thread[t].saddr
         end == Extent(saddr, rounded_size(thread[t].z))
     IN  IF gzfc_size # 0
         THEN IF Mapped(saddr, end)
              THEN /\ vm' = vm_map_protect(saddr, end, gzalloc_prot)
                   /\ thread' = Goto(t, "f_lock")
                   /\ UNCHANGED panicked
              ELSE /\ panicked' = "gzalloc_free: vm_map_protect"
                   /\ UNCHANGED <<vm, thread>>
         ELSE /\ thread' = [thread EXCEPT ![t].pc = "f_lock",
                                          ![t].free_addr = saddr]
              /\ UNCHANGED <<vm, panicked>>
  /\ UNCHANGED <<cfgvars, ctrvars, bootvars, resvars, zone, mem, histvars,
                 last, zlock>>

\* the insertion into the free element cache, a statement at a time:
\*   if (gzfc_index >= gzfc_size) gzfc_index = 0;
\*   free_addr = gzfc[gzfc_index];
\*   gzfc[gzfc_index++] = saddr;
T_free_cache(t) ==
  /\ panicked = "" /\ thread[t].pc \in {"f_ring", "f_read", "f_write"}
  /\ LET z == thread[t].z
         gz == zone[z].gz
     IN  \/ /\ At(t, "f_ring") /\ gzfc_size = 0
            /\ thread' = Goto(t, "f_uncount")
            /\ freed' = [freed EXCEPT ![z] = Append(@, thread[t].saddr)]
            /\ UNCHANGED <<zone, regions, panicked>>
         \/ /\ At(t, "f_ring") /\ gzfc_size # 0
            /\ zone' = [zone EXCEPT ![z].gz.gzfc_index =
                          IF @ >= gzfc_size THEN 0 ELSE @]
            /\ thread' = Goto(t, "f_read")
            /\ UNCHANGED <<freed, regions, panicked>>
         \/ /\ thread[t].pc \in {"f_read", "f_write"}
            /\ (gz.gzfc_index + 1) \notin DOMAIN gz.gzfc
            /\ panicked' = "page fault"
            /\ UNCHANGED <<zone, thread, freed, regions>>
         \/ /\ At(t, "f_read") /\ (gz.gzfc_index + 1) \in DOMAIN gz.gzfc
            /\ thread' = [thread EXCEPT ![t].pc = "f_write",
                            ![t].free_addr = gz.gzfc[gz.gzfc_index + 1]]
            /\ UNCHANGED <<zone, freed, regions, panicked>>
         \/ /\ At(t, "f_write") /\ (gz.gzfc_index + 1) \in DOMAIN gz.gzfc
            /\ zone' = [zone EXCEPT
                          ![z].gz.gzfc[gz.gzfc_index + 1] = thread[t].saddr,
                          ![z].gz.gzfc_index = @ + 1]
            /\ freed' = [freed EXCEPT ![z] = Append(@, thread[t].saddr)]
            /\ regions' = {IF r.base = thread[t].saddr /\ r.st = "freeing"
                           THEN [r EXCEPT !.st = "quarantined"] ELSE r
                           : r \in regions}
            /\ thread' = Goto(t, "f_uncount")
            /\ UNCHANGED panicked
  /\ UNCHANGED <<cfgvars, ctrvars, bootvars, resvars, vm, mem, released,
                 last, zlock>>

\* if (free_addr) { zone->count--; zone->cur_size -= rounded_size; }
T_free_uncount(t) ==
  /\ panicked = "" /\ thread[t].pc \in {"f_uncount", "f_uncur"}
  /\ LET z == thread[t].z IN
       \/ /\ At(t, "f_uncount") /\ thread[t].free_addr = 0
          /\ thread' = Goto(t, "f_unlock")
          /\ UNCHANGED zone
       \/ /\ At(t, "f_uncount") /\ thread[t].free_addr # 0
          /\ zone' = [zone EXCEPT ![z].count = @ - 1]
          /\ thread' = Goto(t, "f_uncur")
       \/ /\ At(t, "f_uncur")
          /\ zone' = [zone EXCEPT ![z].cur_size = @ - rounded_size(z)]
          /\ thread' = Goto(t, "f_unlock")
  /\ UNCHANGED <<cfgvars, ctrvars, bootvars, resvars, vm, mem, panicked,
                 histvars, last, zlock>>

\* if (free_addr) { vm_map_remove(...); the two OSAddAtomic64 }; return TRUE
T_free_remove(t) ==
  /\ panicked = "" /\ At(t, "f_remove")
  /\ LET z == thread[t].z
         free_addr == thread[t].free_addr
         fend == Extent(free_addr, rounded_size(z))
     IN  /\ vm' = vm_map_remove(free_addr, fend)
         /\ mem' = Wipe(mem, free_addr, fend)
         /\ gzalloc_freed' = gzalloc_freed + rounded_size(z)
         /\ gzalloc_wasted' = WastedAfterRelease(z)
         /\ regions' = {r \in regions : ~(r.base = free_addr /\ ~r.early)}
         /\ released' = [released EXCEPT ![z] = Append(@, free_addr)]
  /\ thread' = [thread EXCEPT ![t] = Idle]
  /\ UNCHANGED <<cfgvars, bootvars, resvars, zone, panicked, freed, last,
                 zlock, gzalloc_allocated, gzalloc_early_alloc,
                 gzalloc_early_free, pdzalloc_count, pdzfree_count>>

ConcBootArgs ==
  {BootArgs(FALSE, NoArg, NoArg, 256, fc, FALSE, FALSE, FALSE, FALSE) :
     fc \in 0..2}
ConcZones == {<<ZoneDesc(256, FALSE), ZoneDesc(4081, FALSE)>>}
InitConc == \E b \in ConcBootArgs : \E t \in ConcZones : Booted(b, t)

NextConc ==
  \/ kmem_init
  \/ GzallocInit
  \/ vm_page_module_init
  \/ ZoneInit
  \/ \E t \in Threads : \E z \in Zones : T_alloc_enter(t, z)
  \/ \E t \in Threads : T_lock(t)
  \/ \E t \in Threads : T_alloc_count(t)
  \/ \E t \in Threads : T_unlock(t)
  \/ \E t \in Threads : T_alloc_return(t)
  \/ \E t \in Threads : \E r \in regions : T_free_enter(t, r)
  \/ \E t \in Threads : T_free_protect(t)
  \/ \E t \in Threads : T_free_cache(t)
  \/ \E t \in Threads : T_free_uncount(t)
  \/ \E t \in Threads : T_free_remove(t)

SpecConc == InitConc /\ [][NextConc]_vars

(***************************************************************************)
(* Properties                                                              *)
(***************************************************************************)
\* the steps of kind k in the call c
Steps(c, k) == {c.trace[i] : i \in {j \in DOMAIN c.trace : c.trace[j][1] = k}}
\* the call c is gzalloc_free(r.zone, r.addr) past the eligibility test
FreeOf(c, r) ==
  /\ c.op = "gzalloc_free" /\ Len(c.trace) >= 1
  /\ c.trace[1] = <<"gzalloc_free", r.zone, r.addr>>
\* the call c is a gzalloc_alloc that returned an element
Allocated(c) == c.op = "gzalloc_alloc" /\ c.ret # 0
HasRing(z) == zone[z].inited /\ Eligible(z) /\ gzfc_size >= 1
RingSlots(z) == {i \in DOMAIN zone[z].gz.gzfc : zone[z].gz.gzfc[i] # 0}

\* C1: with a cache of capacity C >= 1, the region released by the k-th free
\* of a zone is the one its (k-C)-th free admitted, nothing is released by
\* the first C frees, and after n frees the ring holds exactly the bases of
\* the last min(n, C) freed regions.
C1_FifoEviction ==
  \A z \in Zones : HasRing(z) =>
    LET n == Len(freed[z])
        k0 == IF n > gzfc_size THEN n - gzfc_size ELSE 0
    IN  /\ released[z] = SubSeq(freed[z], 1, k0)
        /\ {zone[z].gz.gzfc[i] : i \in RingSlots(z)}
             = {freed[z][k] : k \in (k0 + 1)..n}
        /\ Cardinality(RingSlots(z)) = n - k0

\* capacity 2, three distinct regions A, B, C freed: A released, B and C kept
C1_Witness ==
  /\ panicked = "" /\ gzfc_size = 2 /\ HasRing(1)
  /\ Len(freed[1]) = 3
  /\ Cardinality({freed[1][k] : k \in 1..3}) = 3
  /\ released[1] = <<freed[1][1]>>
  /\ {zone[1].gz.gzfc[i] : i \in 1..2} = {freed[1][2], freed[1][3]}

\* C2: with the consistency checks on, gzalloc_free of an address that
\* gzalloc_alloc returned, its header untouched, does not panic, returns
\* TRUE, looks for the header where gzalloc_alloc wrote it and derives the
\* page-aligned base the backing allocation returned.
C2_RoundTrip ==
  [][\A r \in regions :
       (r.st = "live" /\ gzalloc_consistency_checks /\ FreeOf(last', r))
         => /\ panicked' = ""
            /\ last'.ret = 1
            /\ last'.trace[2] = <<"locate", r.hdr, r.base>>
            /\ <<"read_header", r.hdr>> \in Steps(last', "read_header")
            /\ r.base % PAGE_SIZE = 0]_vars

\* a footer (underflow mode) of the three-page zone was found and accepted
C2_Witness ==
  /\ panicked = "" /\ gzalloc_uf_mode /\ gzalloc_consistency_checks
  /\ last.op = "gzalloc_free" /\ last.ret = 1
  /\ Len(last.trace) >= 3 /\ last.trace[1][2] = 2
  /\ Steps(last, "vm_map_protect") # {}

RoundedOf(z) == round_page(zone[z].elem_size + GZHEADER_SIZE)
\* the call c is gzalloc_free past the eligibility test, for zone z
FreeIn(c, z) ==
  /\ c.op = "gzalloc_free" /\ Len(c.trace) >= 1
  /\ c.trace[1][1] = "gzalloc_free" /\ c.trace[1][2] = z
\* the call c is a gzalloc_alloc of zone z that returned an element
AllocIn(c, z) == Allocated(c) /\ c.trace[1][2] = z

\* C4: with capacity 0, a post-boot free of a guarded element releases that
\* element's own region, guard page included, in the same call, takes it
\* off the zone's count and cur_size, changes no protection and does not
\* touch the ring or its cursor.
C4_ImmediateRelease ==
  [][\A r \in regions :
       (gzfc_size = 0 /\ kmem_ready /\ ~r.early /\ r.st = "live"
          /\ FreeOf(last', r))
         => /\ panicked' = ""
            /\ last'.ret = 1
            /\ Steps(last', "vm_map_remove")
                 = {<<"vm_map_remove", r.base,
                      r.base + RoundedOf(r.zone) + PAGE_SIZE>>}
            /\ \A p \in PagesOf(r.base, r.base + RoundedOf(r.zone) + PAGE_SIZE) :
                 vm[p] # "unmapped" /\ vm'[p] = "unmapped"
            /\ Steps(last', "vm_map_protect") = {}
            /\ Steps(last', "gzfc_read") = {}
            /\ Steps(last', "gzfc_write") = {}
            /\ zone'[r.zone].gz = zone[r.zone].gz
            /\ zone'[r.zone].count = zone[r.zone].count - 1
            /\ zone'[r.zone].cur_size
                 = zone[r.zone].cur_size - RoundedOf(r.zone)]_vars

C4_Witness ==
  /\ panicked = "" /\ gzfc_size = 0 /\ kmem_ready
  /\ last.op = "gzalloc_free" /\ last.ret = 1
  /\ Steps(last, "vm_map_remove") # {}
  /\ zone[1].count = 1 /\ zone[1].sum_count = 2

\* what C5 says a declined call leaves alone
GuardState ==
  <<vm, mem, zone, gzalloc_reserve, gzalloc_reserve_size, gzalloc_allocated,
    gzalloc_freed, gzalloc_wasted, gzalloc_early_alloc, gzalloc_early_free,
    pdzalloc_count, pdzfree_count, regions, freed, released>>

\* C5: a gzalloc_alloc that returns 0 and a gzalloc_free that returns FALSE
\* change nothing: no mapping, no reserve, no header, no zone total and no
\* counter.
C5_DeclinedUnchanged ==
  [][(/\ last'.op \in {"gzalloc_alloc", "gzalloc_free"}
      /\ last'.ret = 0 /\ panicked' = "")
       => UNCHANGED GuardState]_vars

\* an eligible zone holding elements declined a caller that may not block
C5_Witness ==
  /\ panicked = "" /\ last.op = "gzalloc_alloc" /\ last.ret = 0
  /\ last.trace = <<<<"declined", 1>>>>
  /\ Eligible(1) /\ zone[1].count >= 1

\* C6: a zone's count is the number of its regions allocated and not yet
\* released (live, quarantined, or early), and cur_size that many rounded
\* sizes; a free changes them by exactly the regions it releases.
C6_CountInv ==
  \A z \in Zones :
    /\ zone[z].count = Cardinality({r \in regions : r.zone = z})
    /\ zone[z].cur_size = RoundedOf(z) * Cardinality({r \in regions : r.zone = z})
C6_FreeStep ==
  \A z \in Zones : (FreeIn(last', z) /\ panicked' = "") =>
    LET n == Cardinality(Steps(last', "vm_map_remove")) IN
      /\ n \in {0, 1}
      /\ zone'[z].count = zone[z].count - n
      /\ zone'[z].cur_size = zone[z].cur_size - n * RoundedOf(z)
\* C6: the zone accounting holds in every state (C6_CountInv) and every
\* free moves count and cur_size by what it released (C6_FreeStep).
C6_ZoneAccounting == []C6_CountInv /\ [][C6_FreeStep]_vars

\* a zone holding a live, a quarantined and no other region after an eviction
C6_Witness ==
  /\ panicked = "" /\ Len(released[1]) = 1 /\ zone[1].count = 2
  /\ \E r \in regions : r.zone = 1 /\ r.st = "quarantined"
  /\ \E r \in regions : r.zone = 1 /\ r.st = "live"

WasteOf(r) == RoundedOf(r.zone) - zone[r.zone].elem_size
RECURSIVE SumWaste(_)
SumWaste(S) ==
  IF S = {} THEN 0
  ELSE LET x == CHOOSE y \in S : TRUE IN WasteOf(x) + SumWaste(S \ {x})
RECURSIVE SumRounded(_)
SumRounded(S) ==
  IF S = {} THEN 0
  ELSE LET x == CHOOSE y \in S : TRUE IN RoundedOf(x.zone) + SumRounded(S \ {x})

\* C7: gzalloc_wasted is the sum of roundedSize - S over the regions
\* allocated and not yet released, gzalloc_allocated - gzalloc_freed the sum
\* of their rounded sizes; an allocation adds roundedSize - S, a release
\* takes the same off, a free that only quarantines leaves it.
C7_WastedInv ==
  /\ gzalloc_wasted = SumWaste(regions)
  /\ gzalloc_allocated - gzalloc_freed = SumRounded(regions)
C7_Step ==
  \A z \in Zones :
    /\ AllocIn(last', z) /\ panicked' = ""
         => gzalloc_wasted' = gzalloc_wasted + (RoundedOf(z) - zone[z].elem_size)
    /\ FreeIn(last', z) /\ panicked' = ""
         => gzalloc_wasted' = gzalloc_wasted
              - Cardinality(Steps(last', "vm_map_remove"))
                * (RoundedOf(z) - zone[z].elem_size)
\* C7: the wasted-bytes counter is the sum over the outstanding regions
\* (C7_WastedInv) and every allocation and free moves it so (C7_Step).
C7_WastedBytes == []C7_WastedInv /\ [][C7_Step]_vars

\* regions of both zones are out, and one has been released
C7_Witness ==
  /\ panicked = "" /\ gzalloc_freed > 0 /\ gzalloc_wasted > 0
  /\ \E r \in regions : r.zone = 2
  /\ \E r \in regions : r.zone = 1

\* C8: every region whose base is in a ring is still mapped and has its
\* whole extent, guard page included, at the configured disposition
\* (gzalloc_prot, never writable); the protection change of a freed region
\* comes before its base is written into the ring.
C8_QuarantineDisposition ==
  /\ \A z \in Zones : HasRing(z) =>
       \A i \in RingSlots(z) :
         LET base == zone[z].gz.gzfc[i] IN
           /\ Mapped(base, base + RoundedOf(z) + PAGE_SIZE)
           /\ Cardinality(PagesOf(base, base + RoundedOf(z) + PAGE_SIZE))
                = (RoundedOf(z) \div PAGE_SIZE) + 1
           /\ \A p \in PagesOf(base, base + RoundedOf(z) + PAGE_SIZE) :
                vm[p] = gzalloc_prot
  /\ gzalloc_prot \in {VM_PROT_NONE, VM_PROT_READ}
  /\ ~bootargs.DEBUG =>
       gzalloc_prot = (IF bootargs.gzalloc_wp THEN VM_PROT_READ
                       ELSE VM_PROT_NONE)
  /\ \A z \in Zones : FreeIn(last, z) =>
       \A j \in DOMAIN last.trace :
         last.trace[j][1] = "gzfc_write" =>
           \E i \in 1..(j - 1) :
             last.trace[i] = <<"vm_map_protect", last.trace[j][3],
                               last.trace[j][3] + RoundedOf(z) + PAGE_SIZE,
                               gzalloc_prot>>

\* a write-protected two-page element sits in the ring next to another
C8_Witness ==
  /\ panicked = "" /\ gzalloc_prot = VM_PROT_READ /\ HasRing(2)
  /\ RingSlots(2) # {} /\ RingSlots(1) # {}

\* C9: a post-boot allocation of element size S asks the map for
\* round_page(S + header) + one page.  Overflow mode: the guard page is the
\* last page, the element ends where the guard page starts, the header is
\* the 16 bytes before the element.  Underflow mode: the guard page is the
\* first page, the element starts right after it, the header is the 16
\* bytes after the element.  The header lies in the non-guard pages and
\* does not overlap the element.
C9_Placement ==
  \A z \in Zones :
    (AllocIn(last, z) /\ last.trace[2][1] = "kernel_memory_allocate") =>
      LET S == zone[z].elem_size
          roundedSize == round_page(S + GZHEADER_SIZE)
          base == last.trace[2][2]
          addr == last.ret
          hdr == last.trace[4][2]
          lo == IF gzalloc_uf_mode THEN base + PAGE_SIZE ELSE base
          guardpage == IF gzalloc_uf_mode THEN base ELSE base + roundedSize
      IN  /\ last.trace[2][3] = roundedSize + PAGE_SIZE
          /\ base % PAGE_SIZE = 0
          /\ vm[PageOf(guardpage)] = "guard"
          /\ \A p \in PagesOf(lo, lo + roundedSize) : vm[p] = VM_PROT_DEFAULT
          /\ last.trace[4][1] = "header"
          /\ \E m \in mem : m[1] = hdr /\ HdrSig(m[2]) = GZALLOC_SIGNATURE
          /\ IF gzalloc_uf_mode
             THEN addr = base + PAGE_SIZE /\ hdr = addr + S
             ELSE /\ addr = base + (roundedSize - S)
                  /\ addr + S = guardpage
                  /\ hdr + GZHEADER_SIZE = addr
          /\ lo <= hdr /\ hdr + GZHEADER_SIZE <= lo + roundedSize
          /\ lo <= addr /\ addr + S <= lo + roundedSize
          /\ (hdr + GZHEADER_SIZE <= addr \/ addr + S <= hdr)

\* an underflow-mode allocation of the element that needs two data pages
C9_Witness ==
  /\ panicked = "" /\ gzalloc_uf_mode /\ AllocIn(last, 2)
  /\ last.trace[2][1] = "kernel_memory_allocate"

EarlyRegions == {r \in regions : r.early}
MapBases == {r.base : r \in {q \in regions : ~q.early}}

\* C10: an allocation served from the reserve carries the GZDEADZONE
\* sentinel; a free of it, before or after the VM is ready, adds
\* rounded_size to gzalloc_early_free and returns TRUE, and neither the
\* ring, vm_map_protect, vm_map_remove nor the zone's count and cur_size
\* see it.  What a ring holds, and what is released, came from the map.
C10_EarlyInv ==
  /\ \A r \in EarlyRegions :
       /\ ~InMap(r.base)
       /\ HdrZone(Load(r.hdr)) = GZDEADZONE
  /\ \A r \in regions : ~r.early => HdrZone(Load(r.hdr)) # GZDEADZONE
  /\ \A z \in Zones : \A i \in RingSlots(z) :
       /\ InMap(zone[z].gz.gzfc[i])
       /\ zone[z].gz.gzfc[i] \in MapBases
  /\ \A z \in Zones : \A k \in DOMAIN released[z] : InMap(released[z][k])
C10_EarlyStep ==
  /\ \A r \in EarlyRegions : FreeOf(last', r) =>
       /\ panicked' = ""
       /\ last'.ret = 1
       /\ gzalloc_early_free' = gzalloc_early_free + RoundedOf(r.zone)
       /\ Steps(last', "vm_map_protect") = {}
       /\ Steps(last', "vm_map_remove") = {}
       /\ Steps(last', "gzfc_write") = {}
       /\ zone'[r.zone].count = zone[r.zone].count
       /\ zone'[r.zone].cur_size = zone[r.zone].cur_size
       /\ zone'[r.zone].gz = zone[r.zone].gz
       /\ UNCHANGED <<vm, gzalloc_freed, freed, released>>
  /\ \A e \in Steps(last', "vm_map_protect") \cup Steps(last', "vm_map_remove") :
       e[2] \in MapBases
  /\ \A e \in Steps(last', "gzfc_write") : e[3] \in MapBases
\* C10: early allocations stay out of the ring and the map in every state
\* (C10_EarlyInv) and a free of one only counts it (C10_EarlyStep).
C10_EarlyLeak == []C10_EarlyInv /\ [][C10_EarlyStep]_vars

\* an element allocated before the VM was ready is freed after it is, while
\* the ring of its zone holds a region of the map
C10_Witness ==
  /\ panicked = "" /\ kmem_ready /\ vm_page_zone
  /\ last.op = "gzalloc_free" /\ last.ret = 1
  /\ \E r \in EarlyRegions : r.st = "leaked" /\ FreeOf(last, r)
  /\ \E z \in Zones : RingSlots(z) # {}

CheckPanics ==
  {"GZALLOC signature mismatch", "Mismatched zone or under/overflow",
   "Mismatched zfree or under/overflow"}

CarvesRing(z) ==
  /\ ~zone[z].inited /\ zone'[z].inited
  /\ gzalloc_mode /\ gzfc_size # 0 /\ Eligible(z) /\ ~kmem_ready

\* C11: a request served from the reserve (an early gzalloc_alloc, an early
\* ring carve-out) panics with "gzalloc reserve exhausted" whenever the
\* reserve left is smaller than what the request takes (rounded_size + a
\* page for an element, gzfcsz for a ring); so gzalloc_reserve_size never
\* wraps below zero and gzalloc_reserve never passes the end of the carve-out.
C11_ReserveExhaustion ==
  [][/\ \A z \in Zones :
          (last'.op = "gzalloc_alloc" /\ EarlyAlloc /\ Eligible(z)
             /\ ULess(gzalloc_reserve_size, rounded_size(z) + PAGE_SIZE))
            => panicked' = "gzalloc reserve exhausted"
     /\ \A z \in Zones :
          (CarvesRing(z) /\ ULess(gzalloc_reserve_size, gzfcsz))
            => panicked' = "gzalloc reserve exhausted"
     /\ gzalloc_reserve_size' >= 0
     /\ gzalloc_reserve' <= ReserveEnd]_vars

(***************************************************************************)
(* C12: pdzalloc_count                                                     *)
(***************************************************************************)
\* C12: pdzalloc_count goes up by one in exactly the calls of gzalloc_alloc
\* on an eligible zone that return 0 because the caller may not block, and a
\* call that is counted is never served as a guarded allocation.
C12_FallbackCounter ==
  [][(last'.op = "gzalloc_alloc" /\ panicked' = "") =>
       /\ pdzalloc_count' =
            pdzalloc_count + (IF Fallback(last') THEN 1 ELSE 0)
       /\ pdzalloc_count' # pdzalloc_count => last'.ret = 0]_vars

(***************************************************************************)
(* C13: a second free of a quarantined element                             *)
(***************************************************************************)
\* C13: with capacity >= 1 and either disposition, gzalloc_free of an
\* address whose region is in the ring faults or panics and does not return
\* handled; so no ring holds one base in two slots and no base is released
\* while it is not mapped.
C13_DoubleFreeFaults ==
  [][/\ \A r \in regions :
          (r.st = "quarantined" /\ FreeOf(last', r))
            => (panicked' # "" /\ last'.ret = 0)
     /\ \A z \in Zones : \A i, j \in RingSlots(z)' :
          zone'[z].gz.gzfc[i] = zone'[z].gz.gzfc[j] => i = j
     /\ \A e \in Steps(last', "vm_map_remove") : Mapped(e[2], e[3])]_vars

\* what the code does: with the quarantine unmapped (VM_PROT_NONE) the second
\* free faults on the header and changes nothing
C13_UnmappedDoubleFreeFaults ==
  [][\A r \in regions :
       (r.st = "quarantined" /\ gzalloc_prot = VM_PROT_NONE
          /\ FreeOf(last', r))
         => /\ panicked' = "page fault" /\ last'.ret = 0
            /\ UNCHANGED <<vm, zone, freed, released, regions>>]_vars

(***************************************************************************)
(* C14: one byte written past a 64-byte element in underflow mode          *)
(***************************************************************************)
\* the call c wrote one byte at offset 64 of the 64-byte element r
OverranBy(c, r) ==
  /\ c.op = "store" /\ zone[r.zone].elem_size = 64
  /\ c.trace[1][2] = r.zone /\ c.trace[1][3] = r.addr
  /\ c.trace[1][4] = r.addr + 64 /\ Len(c.trace[1][5]) = 1

\* C14 as claimed: in underflow mode with the checks on, the free of a
\* 64-byte element whose byte at offset 64 was overwritten ends in the
\* signature-mismatch panic.
C14_OverrunSignaturePanic ==
  [][\A r \in regions :
       (r.st = "live" /\ gzalloc_uf_mode /\ gzalloc_consistency_checks
          /\ OverranBy(last, r) /\ FreeOf(last', r))
         => panicked' = "GZALLOC signature mismatch"]_vars

\* C14, amended: in underflow mode the header starts right after the 64
\* bytes, the byte at offset 64 is the first byte of the recorded zone, and
\* the free of the element ends in the zone-mismatch panic, the signature
\* being intact; the call does not return and changes no guard state.
C14_OverrunZonePanic ==
  [][\A r \in regions :
       (r.st = "live" /\ gzalloc_uf_mode /\ gzalloc_consistency_checks
          /\ OverranBy(last, r) /\ FreeOf(last', r))
         => /\ r.hdr = r.addr + 64
            /\ HdrSig(Load(r.hdr)) = GZALLOC_SIGNATURE
            /\ HdrSize(Load(r.hdr)) = U32Bytes(64)
            /\ HdrZone(Load(r.hdr)) \notin {ZonePtr(r.zone), GZDEADZONE}
            /\ panicked' = "Mismatched zone or under/overflow"
            /\ last'.ret = 0
            /\ UNCHANGED <<vm, zone, freed, released, regions>>]_vars

\* an element allocated from the map was overrun by one byte and its free
\* stopped the kernel
C14_Witness ==
  /\ panicked # "" /\ gzalloc_uf_mode /\ gzalloc_consistency_checks
  /\ last.op = "gzalloc_free"
  /\ \E r \in Corrupted : FreeOf(last, r) /\ ~r.early /\ r.st = "live"
       /\ zone[r.zone].elem_size = 64 /\ r.hdr = r.addr + 64
       /\ HdrZone(Load(r.hdr)) # ZonePtr(r.zone)

(***************************************************************************)
(* C15: what the boot command line resolves to                             *)
(***************************************************************************)
\* no call so far was taken by the guard allocator
NothingGuarded ==
  /\ last.op \in {"gzalloc_alloc", "gzalloc_free"} => last.ret = 0
  /\ regions = {} /\ mem = {}
  /\ gzalloc_allocated = 0 /\ gzalloc_early_alloc = 0
  /\ \A z \in Zones : zone[z].count = 0 /\ zone[z].gz.gzfc = <<>>

\* -nogzalloc_mode turns guarding off whatever else the line and the build say
C15_Disabled ==
  bootargs.nogzalloc_mode =>
    /\ ~gzalloc_mode
    /\ gzalloc_reserve = 0 /\ gzalloc_reserve_size = 0
    /\ \A z \in Zones : ~Eligible(z)
    /\ NothingGuarded

\* the window a fixed size resolves to is [lo, lo]
FixedWindow(lo) ==
  /\ gzalloc_mode
  /\ gzalloc_min = lo /\ gzalloc_max = lo
  /\ gzalloc_reserve_size + (gzalloc_reserve - ReserveBase)
       = GZALLOC_RESERVE_SIZE_DEFAULT
  /\ \A z \in Zones :
       Eligible(z) <=> (zone[z].elem_size = lo /\ ~zone[z].gzalloc_exempt)

\* C15 as claimed: -nogzalloc_mode disables guarding regardless of the
\* other parameters and the debug default; without it a fixed size s makes
\* the guarded window exactly [s, s] whatever min and max are given.
C15_FixedSizeWindow ==
  /\ C15_Disabled
  /\ (~bootargs.nogzalloc_mode /\ bootargs.gzalloc_size # NoArg)
       => FixedWindow(bootargs.gzalloc_size)

\* C15, amended: -nogzalloc_mode disables guarding regardless of the other
\* parameters and the debug default; without it a fixed size s makes the
\* guarded window exactly [s + d, s + d] whatever min and max are given,
\* d being ZONE_DEBUG_OFFSET in a build with ZONE_DEBUG and 0 otherwise.
C15_Resolution ==
  /\ C15_Disabled
  /\ (~bootargs.nogzalloc_mode /\ bootargs.gzalloc_size # NoArg)
       => FixedWindow(bootargs.gzalloc_size + bootargs.ZONE_DEBUG_OFFSET)

\* a DEBUG build booted with the enable flag, a range, a fixed size and the
\* disable flag declined an allocation for the zone of that size
C15_Witness ==
  /\ bootargs.nogzalloc_mode /\ bootargs.gzalloc_mode /\ bootargs.DEBUG
  /\ bootargs.gzalloc_min # NoArg /\ bootargs.gzalloc_max # NoArg
  /\ bootargs.gzalloc_size = 256
  /\ last = Call("gzalloc_alloc", 0, <<<<"declined", 1>>>>)
  /\ zone[1].elem_size = 256 /\ ~zone[1].gzalloc_exempt

(***************************************************************************)
(* C16: concurrent calls on one zone                                       *)
(***************************************************************************)
Occ(seq, x) == Cardinality({i \in DOMAIN seq : seq[i] = x})
\* threads of zone z at one of the positions pcs
ThreadsAt(z, pcs) == {t \in Threads : thread[t].z = z /\ thread[t].pc \in pcs}
\* threads that took x out of the ring of z and have not released it yet
Holding(z, x) ==
  {t \in ThreadsAt(z, {"f_uncount", "f_uncur", "f_unlock", "f_remove"}) :
     thread[t].free_addr = x}
Critical ==
  {"a_count", "a_sum", "a_cur", "a_unlock", "f_ring", "f_read", "f_write",
   "f_uncount", "f_uncur", "f_unlock"}

\* the state is the one the calls leave when run one after another in the
\* order they took the lock
C16_SerialInv ==
  \A z \in Zones :
    LET n == Len(freed[z])
        live == Cardinality({r \in regions : r.zone = z})
    IN  /\ Cardinality(ThreadsAt(z, Critical)) <= 1
        /\ zone[z].count =
             live - Cardinality(ThreadsAt(z, {"a_lock", "a_count"}))
             - Cardinality({t \in ThreadsAt(z, {"f_uncur", "f_unlock",
                                                 "f_remove"}) :
                              thread[t].free_addr # 0})
        /\ zone[z].cur_size =
             RoundedOf(z)
             * (live
                - Cardinality(ThreadsAt(z, {"a_lock", "a_count", "a_sum",
                                            "a_cur"}))
                - Cardinality({t \in ThreadsAt(z, {"f_unlock", "f_remove"}) :
                                 thread[t].free_addr # 0}))
        /\ HasRing(z) =>
             /\ \A k \in 1..n : k > n - gzfc_size =>
                  zone[z].gz.gzfc[((k - 1) % gzfc_size) + 1] = freed[z][k]
             /\ \A i \in DOMAIN zone[z].gz.gzfc :
                  i > n => zone[z].gz.gzfc[i] = 0
             /\ \A k \in 1..n :
                  Occ(freed[z], freed[z][k])
                    = Occ(zone[z].gz.gzfc, freed[z][k])
                      + Cardinality(Holding(z, freed[z][k]))
                      + Occ(released[z], freed[z][k])

\* a region is released by the one thread that rotated it out, while it is
\* still mapped
C16_ReleaseStep ==
  \A t \in Threads :
    (thread[t].pc = "f_remove" /\ thread'[t].pc = "idle") =>
      /\ Mapped(thread[t].free_addr,
                Extent(thread[t].free_addr, RoundedOf(thread[t].z)))
      /\ \E r \in regions : r.base = thread[t].free_addr /\ r.zone = thread[t].z
      /\ \A u \in Threads \ {t} : thread[u].free_addr # thread[t].free_addr

\* C16: whatever the interleaving of gzalloc_alloc and gzalloc_free calls on
\* a zone, its count, cur_size, ring and cursor are as if the calls had run
\* one at a time in the order they took the zone lock: no admitted address
\* is lost, each rotated-out address is released once, by one caller, and
\* no count or cur_size update is lost.
C16_Serialised == []C16_SerialInv /\ [][C16_ReleaseStep]_vars

\* one thread waits for the zone lock in gzalloc_free while another, inside
\* the lock, has rotated a region out of the ring
C16_Witness ==
  \E t, u \in Threads :
    /\ t # u /\ thread[t].z = thread[u].z
    /\ thread[t].pc = "f_lock"
    /\ thread[u].pc = "f_uncount" /\ thread[u].free_addr # 0
    /\ gzfc_size >= 1 /\ zlock[thread[u].z] = u


(***************************************************************************)
(* The bounds of the protected free element cache                          *)
(***************************************************************************)
\* the ring steps of the call c
RingSteps(c) == Steps(c, "gzfc_read") \cup Steps(c, "gzfc_write")

\* the slot the next admission of gz uses
NextSlot(gz) == IF gz.gzfc_index >= gzfc_size THEN 0 ELSE gz.gzfc_index

C17_RingInv ==
  \A z \in Zones : HasRing(z) =>
    /\ Len(zone[z].gz.gzfc) = gzfc_size
    /\ Cardinality(RingSlots(z)) <= gzfc_size
    /\ zone[z].gz.gzfc_index \in 0..gzfc_size
    /\ (/\ last.op = "gzalloc_free" /\ Len(last.trace) >= 1
        /\ last.trace[1][2] = z
        /\ Steps(last, "vm_map_protect") # {}
        /\ panicked # "gzalloc_free: vm_map_protect")
         => /\ Cardinality(Steps(last, "gzfc_read")) = 1
            /\ Cardinality(Steps(last, "gzfc_write")) = 1
            /\ \A st \in RingSteps(last) : st[2] \in 0..(gzfc_size - 1)

C17_CursorStep ==
  \A z \in Zones : HasRing(z) =>
    IF freed'[z] # freed[z]
    THEN LET idx == NextSlot(zone[z].gz)
             saddr == freed'[z][Len(freed'[z])]
         IN  /\ freed'[z] = Append(freed[z], saddr)
             /\ idx \in 0..(gzfc_size - 1)
             /\ zone[z].gz.gzfc_index = gzfc_size => idx = 0
             /\ zone'[z].gz.gzfc_index = idx + 1
             /\ zone'[z].gz.gzfc = [zone[z].gz.gzfc EXCEPT ![idx + 1] = saddr]
             /\ Steps(last', "gzfc_read")
                  = {<<"gzfc_read", idx, zone[z].gz.gzfc[idx + 1]>>}
             /\ Steps(last', "gzfc_write") = {<<"gzfc_write", idx, saddr>>}
    ELSE zone'[z].gz = zone[z].gz

\* C17: for a capacity C >= 1 the ring holds at most C non-zero entries, every
\* read and write of the ring in gzalloc_free uses a slot in 0..C-1, and the
\* cursor gzfc_index stays in 0..C, advances by one per admission and wraps to
\* slot 0 once it has reached C.
C17_RingCapacity == []C17_RingInv /\ [][C17_CursorStep]_vars

\* capacity 2, third admission: the cursor was at 2, slot 0 is used again
C17_Witness ==
  /\ panicked = "" /\ gzfc_size = 2 /\ HasRing(1)
  /\ Len(freed[1]) = 3
  /\ zone[1].gz.gzfc_index = 1
  /\ last.op = "gzalloc_free"
  /\ Steps(last, "gzfc_write") = {<<"gzfc_write", 0, freed[1][3]>>}


(***************************************************************************)
(* Frees presented by a zone other than the allocating one                 *)
(***************************************************************************)
\* the step is gzalloc_free(z, r.addr) of the live element r of another
\* zone, z guarded, the consistency checks on
CrossFreeOf(r, z) ==
  /\ r \in regions /\ r.st = "live" /\ z # r.zone
  /\ panicked = "" /\ zone[z].inited /\ Eligible(z)
  /\ gzalloc_consistency_checks
  /\ FreeOf(last', [zone |-> z, addr |-> r.addr])

SameSize(r, z) == zone[z].elem_size = zone[r.zone].elem_size

C19_PathAgreement ==
  [][/\ (last'.op = "gzalloc_free" /\ last'.ret = 1)
          => \E r \in regions : r.st = "live" /\ FreeOf(last', r)
     /\ (panicked = "" /\ last.op = "host_alloc"
           /\ last'.op = "gzalloc_free")
          => /\ last'.ret = 0 /\ panicked' = ""
             /\ GuardState' = GuardState]_vars


(***************************************************************************)
(* The scope of the zone lock                                              *)
(***************************************************************************)
\* the zones whose lock thread t holds
Held(t) == {z \in Zones : zlock[z] = t}

C20_LockInv ==
  \A t \in Threads :
    /\ Held(t) \subseteq {thread[t].z}
    /\ At(t, "idle") => Held(t) = {}

C20_LockStep ==
  \A t \in Threads :
    /\ (\E z \in Zones : T_alloc_enter(t, z)) => Held(t) = {}
    /\ (\E r \in regions : T_free_enter(t, r)) => Held(t) = {}
    /\ T_free_protect(t) => Held(t) = {}
    /\ T_free_remove(t) => Held(t) = {}
    /\ (vm' # vm \/ panicked' # panicked) => \A u \in Threads :
         thread'[u] # thread[u] => Held(u) = {}
    /\ (gzfc_size # 0 /\ thread'[t].free_addr # thread[t].free_addr
        /\ ~At(t, "idle")' )
         => (zlock[thread[t].z] = t /\ zlock'[thread[t].z] = t)
    /\ released' # released /\ thread'[t] # thread[t]
         => (Held(t) = {} /\ thread[t].free_addr # 0)
    /\ (~At(t, "idle") /\ At(t, "idle")') => \A z \in Zones : zlock'[z] # t

\* C20: on every path through gzalloc_alloc and gzalloc_free the zone lock,
\* once taken, is released before the function returns; kernel_memory_allocate,
\* vm_map_protect, vm_map_remove and the header validation run with the zone
\* lock not held; the region rotated out of the ring is read under the lock
\* and released only after unlock_zone.
C20_LockScope == []C20_LockInv /\ [][C20_LockStep]_vars

\* a thread releases the region it rotated out while the other thread is
\* inside the lock of the same zone
C20_Witness ==
  \E t, u \in Threads :
    /\ t # u /\ thread[t].z = thread[u].z
    /\ thread[t].pc = "f_remove" /\ thread[t].free_addr # 0
    /\ gzfc_size >= 1 /\ zlock[thread[u].z] = u
    /\ thread[u].pc \in {"a_count", "f_ring"}

====
